---- MODULE Spec2Model ----
(***************************************************************************)
(* A model of the openeval evaluation core.                                *)
(*                                                                         *)
(*  - Spec: one call of Eval (openeval/eval.py) on caller-built data: the  *)
(*    input validation, the normalisation of the data, the per-item loop   *)
(*    (task call, scorer calls, EvalResult) and the summary.  The task and *)
(*    the scorers are callbacks: what a call returns, or that it raises,   *)
(*    is chosen by the environment at the moment of the call.              *)
(*                                                                         *)
(*  - SpecScorers: one call of score on a scorer (openeval/scorers) with a *)
(*    test case and, for the scorers that ask a client, whatever the       *)
(*    client answers: the reply text of a judge model, token by token, or  *)
(*    a pair of embedding vectors.                                         *)
(*                                                                         *)
(*  - SpecCompare: one call of compare_experiments                         *)
(*    (openeval/experiment.py) on the summaries of two ExperimentResults.  *)
(*                                                                         *)
(*  - SpecLive: Spec with calls that may never return, and weak fairness   *)
(*    of the steps of the one thread Eval runs in.                         *)
(*                                                                         *)
(*  - SpecDataset: add calls on a Dataset (openeval/dataset.py), then one  *)
(*    filter or sample and add calls on its result.                        *)
(*                                                                         *)
(*  - SpecTracker: add calls on a CostTracker (openeval/cost.py); costs    *)
(*    are floats of FloatBits significant bits, in units of 10^-8 USD.     *)
(*                                                                         *)
(*  - SpecTrace: calls of traced functions (openeval/tracing.py) in two    *)
(*    threads, nested, returning or raising.                               *)
(*                                                                         *)
(* Numbers in Spec: a score value v stands for the float v / 2 (0 -> 0.0,  *)
(* 1 -> 0.5, 2 -> 1.0), thresholds are in the same unit (3 -> 1.5), costs  *)
(* are whole units of currency.  A quotient is kept as a reduced fraction  *)
(* <<n, d>>.  Numbers in SpecScorers: a float is a reduced fraction        *)
(* <<n, d>>, <<0, 0>> is NaN, a cost is in units of 10^-8 USD.             *)
(***************************************************************************)
EXTENDS Integers, Sequences, FiniteSets, TLC

\* ------------------------------------------------------------------ bounds
\* Largest number of items the caller puts into data.
MaxItems == 2
\* Largest number of scorers the caller supplies.
MaxScorers == 2
\* Longest output text, in letters, handed to a string scorer.
MaxTextLen == 2
\* Largest number of keywords a contains scorer is built with.
MaxKeywords == 2
\* Longest list of tools, called or expected, of a test case.
MaxTools == 3
\* Largest number of Dataset.add calls on one dataset.
MaxAdds == 3
\* Largest number of CostTracker.add calls on one tracker.
MaxTracked == 3
\* Largest number of calls of traced functions, all threads together, and
\* the deepest nesting of traced calls in one thread.
MaxTraced == 3
MaxDepth == 2

\* ------------------------------------------------------------- value sets
\* Python's None, where the other values are strings.
None == "None"
\* An optional number or list: Nothing is Python's None, Some(x) is x.
Nothing == <<>>
Some(x) == <<x>>

\* The containers a caller may pass as data: a list, a Dataset, or
\* something else (a tuple, a generator, ...).
DataKinds == {"list", "Dataset", "other"}

\* What an item of data can be: a mapping, a TestCase, or neither (a str).
ItemKinds == {"dict", "TestCase", "other"}

\* The item added as the k-th one.  Its input is "q<k>" (the number k), so
\* the items of one run are told apart by their input.  A pre-built
\* TestCase carries an actual_output already, a mapping carries none.
Item(kind, k) ==
    [kind |-> kind, input |-> k,
     actual_output |-> IF kind = "TestCase" THEN "given" ELSE None]

\* The scorers of a run.  threshold = Nothing: the scorer object has no
\* threshold attribute.  metered: the scorer reports cost_usd.
\* A1 and A2 report the same name.
ScorerA1 == [name |-> "A", threshold |-> Some(2), metered |-> TRUE]
ScorerA2 == [name |-> "A", threshold |-> Some(3), metered |-> TRUE]
ScorerB == [name |-> "B", threshold |-> Nothing, metered |-> FALSE]
ScorerObjects == {ScorerA1, ScorerA2, ScorerB}

\* The lists of scorers a caller may pass: every scorer object at most once.
ScorerLists ==
    {s \in UNION {[1..n -> ScorerObjects] : n \in 0..MaxScorers} :
        \A a, b \in DOMAIN s : a # b => s[a] # s[b]}

\* The ScoreResults a call of the scorer may return, under the scorer's
\* name.  A scorer that is not metered returns 0.0 or 1.0 and no cost_usd;
\* a metered one returns the 0.0 of its short-circuit on an empty output
\* with no cost_usd, or a judged 0.5 or 1.0 with a cost.  Every scorer puts
\* its own threshold into the ScoreResult (None if it has none).
ScoreResultsOf(scorer) ==
    IF scorer.metered
    THEN {[name |-> scorer.name, value |-> 0, cost_usd |-> Nothing,
           threshold |-> scorer.threshold],
          [name |-> scorer.name, value |-> 1, cost_usd |-> Some(1),
           threshold |-> scorer.threshold],
          [name |-> scorer.name, value |-> 2, cost_usd |-> Some(1),
           threshold |-> scorer.threshold]}
    ELSE {[name |-> scorer.name, value |-> 0, cost_usd |-> Nothing,
           threshold |-> scorer.threshold],
          [name |-> scorer.name, value |-> 2, cost_usd |-> Nothing,
           threshold |-> scorer.threshold]}

\* What the task may return, and the messages of the exceptions it may raise.
TaskOutputs == {"out"}
TaskMessages == {"", "boom"}

\* ------------------------------------------------------------------ state
VARIABLES
    pc,            \* where the program is: "setup", "task", "score",
                   \* "append", "summary", "returned", "raised", or
                   \* "blocked" in a call that never returns
    dataKind,      \* the container passed as data
    data,          \* the items of the container, in order
    scorers,       \* the scorers argument: Nothing (None) or Some(list)
    hasTask,       \* whether a task callable is supplied (task is not None)
    test_cases,    \* eval.py:87, the normalised test cases
    i,             \* index of the test case the loop of eval.py:90 is at
    j,             \* index of the scorer the loop of eval.py:102 is at
    error,         \* eval.py:92, None or the message of the task's exception
    scores,        \* eval.py:100, the scores of the current item by name
    results,       \* eval.py:83
    total_cost,    \* eval.py:84
    summary,       \* eval.py:122, empty until computed
    raised,        \* the exception Eval ended with, None if none
    calls,         \* history: every task and scorer invocation, in order
    self,          \* a built-in scorer on its own: its class and settings
    test_case,     \* the test case handed to self.score
    reply,         \* what the scorer's client answers when it is called
    outcome,       \* how self.score ended, "pending" before it is called
    baseline,      \* experiment.py:13, the summary of the baseline result
    candidate,     \* experiment.py:14, the summary of the candidate result
    comparison,    \* what compare_experiments returned, Nothing before
    ds_items,      \* dataset.py:42, Dataset._items
    added,         \* history: the items Dataset.add was called with, in order
    result_items,  \* _items of the Dataset filter or sample returned
    result_added,  \* history: the items result.add was called with
    made,          \* how the result was made: "none", "filter", "sample"
    cost_entries,  \* cost.py:144, CostTracker._entries
    tracked,       \* history: the arguments of every CostTracker.add call
    storage,       \* tracing.py:19, _trace_storage.traces of every thread
    stack,         \* the traced calls every thread is inside, outermost first
    invoked,       \* history: every traced call that ended, and how
    started        \* history: the number of traced calls begun

evalVars == <<pc, dataKind, data, scorers, hasTask, test_cases, i, j, error,
              scores, results, total_cost, summary, raised, calls>>

scorerVars == <<self, test_case, reply, outcome>>

compareVars == <<baseline, candidate, comparison>>

datasetVars == <<ds_items, added, result_items, result_added, made>>

trackerVars == <<cost_entries, tracked>>

traceVars == <<storage, stack, invoked, started>>

vars == <<evalVars, scorerVars, compareVars, datasetVars, trackerVars,
          traceVars>>

\* The list of scorers, once the validation has shown there is one.
TheScorers == scorers[1]

\* ---------------------------------------------------------------- helpers
RECURSIVE GCD(_, _)
GCD(a, b) == IF b = 0 THEN a ELSE GCD(b, a % b)

\* The quotient n / d of two naturals, as a reduced fraction.  A
\* denominator of 0 marks the quotient Python refuses to compute
\* (ZeroDivisionError).
Frac(n, d) ==
    IF d = 0 THEN <<n, 0>>
    ELSE LET g == GCD(n, d) IN <<n \div g, d \div g>>

RECURSIVE SumSeq(_)
SumSeq(s) == IF s = <<>> THEN 0 ELSE Head(s) + SumSeq(Tail(s))

RECURSIVE MinSeq(_)
MinSeq(s) ==
    IF s = <<>> THEN 0
    ELSE IF Len(s) = 1 THEN s[1]
    ELSE LET m == MinSeq(Tail(s)) IN IF m < s[1] THEN m ELSE s[1]

RECURSIVE MaxSeq(_)
MaxSeq(s) ==
    IF s = <<>> THEN 0
    ELSE IF Len(s) = 1 THEN s[1]
    ELSE LET m == MaxSeq(Tail(s)) IN IF m > s[1] THEN m ELSE s[1]

RECURSIVE SelectValues(_, _)
\* [r.scores[name].value for r in rs if name in r.scores and r.error is None]
SelectValues(rs, name) ==
    IF rs = <<>> THEN <<>>
    ELSE LET r == Head(rs)
             rest == SelectValues(Tail(rs), name)
         IN IF name \in DOMAIN r.scores /\ r.error = None
            THEN <<r.scores[name].value>> \o rest
            ELSE rest

\* A variant of DictSet that keeps the value a key already has.
DictSetDefault(m, k, v) ==
    [x \in DOMAIN m \cup {k} |-> IF x \in DOMAIN m THEN m[x] ELSE v]

\* m with key k set to v (a dict assignment m[k] = v).
DictSet(m, k, v) ==
    [x \in DOMAIN m \cup {k} |-> IF x = k THEN v ELSE m[x]]

EmptyDict == [x \in {} |-> None]

\* ---------------------------------------------------------------- Dataset
\* Dataset.add: whether the call raises.  Every existing item, and the new
\* item once there is an existing one, is asked for .get, which only a
\* mapping has.
DatasetAddRaises(items, item) ==
    items # <<>> /\ (items[1].kind # "dict" \/ item.kind # "dict")

\* Dataset.add: the items after a call that does not raise.
DatasetAdd(items, item) ==
    IF \E k \in DOMAIN items : items[k].input = item.input
    THEN items
    ELSE Append(items, item)

\* --------------------------------------------------------- _normalize_data
\* The test case made of one item: TestCase.from_dict for a mapping (a
\* fresh id), the item itself otherwise.
AsTestCase(item) ==
    [kind |-> IF item.kind = "dict" THEN "TestCase" ELSE item.kind,
     id |-> item.input, input |-> item.input,
     actual_output |-> item.actual_output]

normalize_data(kind, items) ==
    IF kind = "Dataset"
    THEN [ok |-> TRUE, cases |-> [k \in DOMAIN items |-> AsTestCase(items[k])]]
    ELSE IF kind = "list"
    THEN IF \E k \in DOMAIN items : items[k].kind = "other"
         THEN [ok |-> FALSE, cases |-> <<>>]
         ELSE [ok |-> TRUE,
               cases |-> [k \in DOMAIN items |-> AsTestCase(items[k])]]
    ELSE [ok |-> FALSE, cases |-> <<>>]

\* --------------------------------------------------------- _compute_summary
ThresholdOf(scorer) ==
    IF scorer.threshold = Nothing THEN 0 ELSE scorer.threshold[1]

\* A variant of PassedCount that counts only the values above the threshold
\* (`score > threshold`).
PassedCountStrict(vals, threshold) ==
    Cardinality({k \in DOMAIN vals : vals[k] > threshold})

\* eval.py:212.
PassedCount(vals, threshold) ==
    Cardinality({k \in DOMAIN vals : vals[k] >= threshold})

SummaryEntry(vals, scorer) ==
    [mean |-> Frac(SumSeq(vals), Len(vals)),
     min |-> MinSeq(vals),
     max |-> MaxSeq(vals),
     pass_rate |-> Frac(PassedCount(vals, ThresholdOf(scorer)), Len(vals))]

\* A variant of HasScores without the guard.
HasScoresAlways(vals) == TRUE

\* eval.py:210, the guard `if scores:`.
HasScores(vals) == vals # <<>>

\* Whether computing the summary divided by zero (eval.py:215, 218).
SummaryRaises(sm) ==
    \E name \in DOMAIN sm : sm[name].mean[2] = 0 \/ sm[name].pass_rate[2] = 0

RECURSIVE SummaryFrom(_, _, _, _)
\* The loop of eval.py:200 from scorer k on, sm being the summary so far.
SummaryFrom(rs, scs, k, sm) ==
    IF k > Len(scs) THEN sm
    ELSE LET name == scs[k].name
             vals == SelectValues(rs, name)
         IN SummaryFrom(rs, scs, k + 1,
                IF HasScores(vals)
                THEN DictSet(sm, name, SummaryEntry(vals, scs[k]))
                ELSE sm)

compute_summary(rs, scs) == SummaryFrom(rs, scs, 1, EmptyDict)

\* No scorer is being run on its own.
NoScorerCall ==
    /\ self = <<>>
    /\ test_case = <<>>
    /\ reply = Nothing
    /\ outcome = [status |-> "none", exc |-> None, result |-> Nothing,
                  client_calls |-> 0]

\* No two results are being compared.
NoComparison ==
    /\ baseline = EmptyDict
    /\ candidate = EmptyDict
    /\ comparison = Nothing

\* No Dataset is being filled on its own (and a new Dataset is empty).
NoDataset ==
    /\ ds_items = <<>>
    /\ added = <<>>
    /\ result_items = <<>>
    /\ result_added = <<>>
    /\ made = "none"

\* No CostTracker is in use (and a new CostTracker is empty).
NoTracker ==
    /\ cost_entries = <<>>
    /\ tracked = <<>>

\* The threads of the program.
Threads == {"t1", "t2"}

\* No traced function was called: no thread has a traces attribute yet
\* (tracing.py:24).
NoTracing ==
    /\ storage = [t \in Threads |-> Nothing]
    /\ stack = [t \in Threads |-> <<>>]
    /\ invoked = <<>>
    /\ started = 0

\* ------------------------------------------------------------------- Init
Init ==
    /\ pc = "setup"
    /\ dataKind \in DataKinds
    /\ data = <<>>
    /\ scorers \in {Some(s) : s \in ScorerLists} \cup {Nothing}
    /\ hasTask \in BOOLEAN
    /\ test_cases = <<>>
    /\ i = 0
    /\ j = 0
    /\ error = None
    /\ scores = EmptyDict
    /\ results = <<>>
    /\ total_cost = 0
    /\ summary = EmptyDict
    /\ raised = None
    /\ calls = <<>>
    /\ NoScorerCall
    /\ NoComparison
    /\ NoDataset
    /\ NoTracker
    /\ NoTracing

\* ------------------------------------------------------------ the caller
\* The caller puts one more item into data before calling Eval:
\* list.append, or Dataset.add for a Dataset.
DataAdd(kind) ==
    /\ pc = "setup"
    /\ Len(data) < MaxItems
    /\ LET item == Item(kind, Len(data) + 1)
       IN IF dataKind = "Dataset"
          THEN /\ ~DatasetAddRaises(data, item)
               /\ data' = DatasetAdd(data, item)
          ELSE data' = Append(data, item)
    /\ UNCHANGED scorerVars
    /\ UNCHANGED compareVars
    /\ UNCHANGED datasetVars
    /\ UNCHANGED trackerVars
    /\ UNCHANGED traceVars
    /\ UNCHANGED <<pc, dataKind, scorers, hasTask, test_cases, i, j, error,
                   scores, results, total_cost, summary, raised, calls>>

\* ------------------------------------------------------------------- Eval
\* A variant of ValidateInputs that does not look at data.
ValidateInputsScorersOnly(items, scs) ==
    IF scs = Nothing \/ scs = Some(<<>>) THEN "ValueError" ELSE None

\* eval.py:69-80: what the validation of the arguments raises, None if
\* nothing.
ValidateInputs(items, scs) ==
    IF Len(items) = 0 THEN "ValueError"
    ELSE IF scs = Nothing \/ scs = Some(<<>>) THEN "ValueError"
    ELSE None

\* eval.py:69-87: the call of Eval up to the loop.
EvalStart ==
    /\ pc = "setup"
    /\ LET v == ValidateInputs(data, scorers)
           n == normalize_data(dataKind, data)
       IN IF v # None
          THEN /\ raised' = v
               /\ pc' = "raised"
               /\ UNCHANGED <<test_cases, i>>
          ELSE IF ~n.ok
          THEN /\ raised' = "ValueError"
               /\ pc' = "raised"
               /\ UNCHANGED <<test_cases, i>>
          ELSE /\ test_cases' = n.cases
               /\ i' = 1
               /\ pc' = IF n.cases = <<>> THEN "summary" ELSE "task"
               /\ UNCHANGED raised
    /\ UNCHANGED scorerVars
    /\ UNCHANGED compareVars
    /\ UNCHANGED datasetVars
    /\ UNCHANGED trackerVars
    /\ UNCHANGED traceVars
    /\ UNCHANGED <<dataKind, data, scorers, hasTask, j, error, scores,
                   results, total_cost, summary, calls>>

\* A variant of AfterTask that tests the error for truth (`if not error:`),
\* so that an empty message counts as no error.
AfterTaskTruthy(err) ==
    IF (err = None \/ err = "") /\ TheScorers # <<>> THEN "score" ELSE "append"

\* Where the loop body goes after eval.py:92-97, given the error: to the
\* scorers (eval.py:101-102) or past them.
AfterTask(err) ==
    IF err = None /\ TheScorers # <<>> THEN "score" ELSE "append"

\* eval.py:92-100 with task None: no call, error stays None.
NoTask ==
    /\ pc = "task"
    /\ ~hasTask
    /\ error' = None
    /\ scores' = EmptyDict
    /\ j' = 1
    /\ pc' = AfterTask(None)
    /\ UNCHANGED scorerVars
    /\ UNCHANGED compareVars
    /\ UNCHANGED datasetVars
    /\ UNCHANGED trackerVars
    /\ UNCHANGED traceVars
    /\ UNCHANGED <<dataKind, data, scorers, hasTask, test_cases, i, results,
                   total_cost, summary, raised, calls>>

\* A variant of Assigned that also overwrites the input of the test case.
AssignedWithInput(tc, o) == [tc EXCEPT !.actual_output = o, !.input = 0]

\* eval.py:95, `tc.actual_output = ...`: the test case after the assignment.
Assigned(tc, o) == [tc EXCEPT !.actual_output = o]

\* eval.py:95: the task is called on the item's input and returns o.  A
\* TestCase of the caller is the object _normalize_data put into test_cases
\* (eval.py:156, 164), so the assignment shows in data too; the test case
\* made of a mapping is a fresh object.
TaskReturns(o) ==
    /\ pc = "task"
    /\ hasTask
    /\ test_cases[i].kind = "TestCase"
    /\ calls' = Append(calls, [fn |-> "task", item |-> i, scorer |-> 0,
                               ok |-> TRUE, cost |-> Nothing])
    /\ test_cases' = [test_cases EXCEPT ![i] = Assigned(@, o)]
    /\ data' = IF data[i].kind = "TestCase"
               THEN [data EXCEPT ![i] = Assigned(@, o)]
               ELSE data
    /\ error' = None
    /\ scores' = EmptyDict
    /\ j' = 1
    /\ pc' = AfterTask(None)
    /\ UNCHANGED scorerVars
    /\ UNCHANGED compareVars
    /\ UNCHANGED datasetVars
    /\ UNCHANGED trackerVars
    /\ UNCHANGED traceVars
    /\ UNCHANGED <<dataKind, scorers, hasTask, i, results, total_cost,
                   summary, raised>>

\* A variant of TaskRaises in which nothing catches the exception.
TaskRaisesUncaught(m) ==
    /\ pc = "task"
    /\ hasTask
    /\ test_cases[i].kind = "TestCase"
    /\ calls' = Append(calls, [fn |-> "task", item |-> i, scorer |-> 0,
                               ok |-> FALSE, cost |-> Nothing])
    /\ raised' = "TaskError"
    /\ pc' = "raised"
    /\ UNCHANGED scorerVars
    /\ UNCHANGED compareVars
    /\ UNCHANGED datasetVars
    /\ UNCHANGED trackerVars
    /\ UNCHANGED traceVars
    /\ UNCHANGED <<dataKind, data, scorers, hasTask, test_cases, i, j, error,
                   scores, results, total_cost, summary>>

\* eval.py:95-97: the task is called and raises an Exception with message m.
TaskRaises(m) ==
    /\ pc = "task"
    /\ hasTask
    /\ test_cases[i].kind = "TestCase"
    /\ calls' = Append(calls, [fn |-> "task", item |-> i, scorer |-> 0,
                               ok |-> FALSE, cost |-> Nothing])
    /\ error' = m
    /\ scores' = EmptyDict
    /\ j' = 1
    /\ pc' = AfterTask(m)
    /\ UNCHANGED scorerVars
    /\ UNCHANGED compareVars
    /\ UNCHANGED datasetVars
    /\ UNCHANGED trackerVars
    /\ UNCHANGED traceVars
    /\ UNCHANGED <<dataKind, data, scorers, hasTask, test_cases, i, results,
                   total_cost, summary, raised>>

\* eval.py:95-97 on an item that is no TestCase: reading tc.input raises
\* AttributeError inside the try, before the task is called; the handler
\* turns it into the item's error.
TaskArgumentFails ==
    /\ pc = "task"
    /\ hasTask
    /\ test_cases[i].kind # "TestCase"
    /\ error' = "no attribute input"
    /\ scores' = EmptyDict
    /\ j' = 1
    /\ pc' = AfterTask("no attribute input")
    /\ UNCHANGED scorerVars
    /\ UNCHANGED compareVars
    /\ UNCHANGED datasetVars
    /\ UNCHANGED trackerVars
    /\ UNCHANGED traceVars
    /\ UNCHANGED <<dataKind, data, scorers, hasTask, test_cases, i, results,
                   total_cost, summary, raised, calls>>

\* A variant of AddCost that keeps the last reported cost instead of adding
\* it.
AddCostLast(total, cost) ==
    IF cost # Nothing /\ cost[1] # 0 THEN cost[1] ELSE total

\* eval.py:105-106.
AddCost(total, cost) ==
    IF cost # Nothing /\ cost[1] # 0 THEN total + cost[1] ELSE total

\* eval.py:104: the key the ScoreResult is stored under.
ScoreKey(score_result) == score_result.name

\* Where the loop of eval.py:102 goes after its k-th round.
AfterScorer(k, scs) == IF k < Len(scs) THEN "score" ELSE "append"

\* A variant of ScorerIndex that walks the scorers backwards.
ScorerIndexReversed(k, scs) == Len(scs) + 1 - k

\* eval.py:102, `for scorer in scorers`: the index of the scorer the k-th
\* round of the loop calls.
ScorerIndex(k, scs) == k

\* The scorer the loop of eval.py:102 is at.
CurrentScorer == TheScorers[ScorerIndex(j, TheScorers)]

\* eval.py:103-106: scorer j is called on the item and returns the
\* ScoreResult score_result.
ScorerReturns(score_result) ==
    /\ pc = "score"
    /\ scores' = DictSet(scores, ScoreKey(score_result), score_result)
    /\ total_cost' = AddCost(total_cost, score_result.cost_usd)
    /\ calls' = Append(calls, [fn |-> "scorer", item |-> i,
                               scorer |-> ScorerIndex(j, TheScorers),
                               ok |-> TRUE,
                               cost |-> score_result.cost_usd])
    /\ pc' = AfterScorer(j, TheScorers)
    /\ j' = j + 1
    /\ UNCHANGED scorerVars
    /\ UNCHANGED compareVars
    /\ UNCHANGED datasetVars
    /\ UNCHANGED trackerVars
    /\ UNCHANGED traceVars
    /\ UNCHANGED <<dataKind, data, scorers, hasTask, test_cases, i, error,
                   results, summary, raised>>

\* A variant of ScorerRaises in which the exception is caught and the loop
\* goes on with the next scorer.
ScorerRaisesCaught ==
    /\ pc = "score"
    /\ calls' = Append(calls, [fn |-> "scorer", item |-> i,
                               scorer |-> j, ok |-> FALSE, cost |-> Nothing])
    /\ pc' = IF j < Len(TheScorers) THEN "score" ELSE "append"
    /\ j' = j + 1
    /\ UNCHANGED scorerVars
    /\ UNCHANGED compareVars
    /\ UNCHANGED datasetVars
    /\ UNCHANGED trackerVars
    /\ UNCHANGED traceVars
    /\ UNCHANGED <<dataKind, data, scorers, hasTask, test_cases, i, error,
                   scores, results, total_cost, summary, raised>>

\* eval.py:103: scorer j is called and raises; nothing catches it.
ScorerRaises ==
    /\ pc = "score"
    /\ calls' = Append(calls, [fn |-> "scorer", item |-> i,
                               scorer |-> ScorerIndex(j, TheScorers),
                               ok |-> FALSE, cost |-> Nothing])
    /\ raised' = "ScorerError"
    /\ pc' = "raised"
    /\ UNCHANGED scorerVars
    /\ UNCHANGED compareVars
    /\ UNCHANGED datasetVars
    /\ UNCHANGED trackerVars
    /\ UNCHANGED traceVars
    /\ UNCHANGED <<dataKind, data, scorers, hasTask, test_cases, i, j, error,
                   scores, results, total_cost, summary>>

\* eval.py:110-117.
EvalResult(tc, scs, err) ==
    [test_case_id |-> tc.id, input |-> tc.input,
     actual_output |-> IF tc.actual_output = None THEN "" ELSE tc.actual_output,
     scores |-> scs, error |-> err]

\* Where Eval goes after the EvalResult of item k.
AfterAppend(k, cases) == IF k < Len(cases) THEN "task" ELSE "summary"

\* eval.py:109-118: the EvalResult of the item is appended.  On an item
\* that is no TestCase reading tc.id raises AttributeError.
BuildEvalResult ==
    /\ pc = "append"
    /\ IF test_cases[i].kind = "TestCase"
       THEN /\ results' = Append(results,
                                 EvalResult(test_cases[i], scores, error))
            /\ pc' = AfterAppend(i, test_cases)
            /\ i' = i + 1
            /\ UNCHANGED raised
       ELSE /\ raised' = "AttributeError"
            /\ pc' = "raised"
            /\ UNCHANGED <<results, i>>
    /\ UNCHANGED scorerVars
    /\ UNCHANGED compareVars
    /\ UNCHANGED datasetVars
    /\ UNCHANGED trackerVars
    /\ UNCHANGED traceVars
    /\ UNCHANGED <<dataKind, data, scorers, hasTask, test_cases, j, error,
                   scores, total_cost, summary, calls>>

\* eval.py:121-130: the summary is computed and the ExperimentResult
\* (results, summary, total_cost) returned.
Finish ==
    /\ pc = "summary"
    /\ LET sm == compute_summary(results, TheScorers)
       IN IF SummaryRaises(sm)
          THEN /\ raised' = "ZeroDivisionError"
               /\ pc' = "raised"
               /\ UNCHANGED summary
          ELSE /\ summary' = sm
               /\ pc' = "returned"
               /\ UNCHANGED raised
    /\ UNCHANGED scorerVars
    /\ UNCHANGED compareVars
    /\ UNCHANGED datasetVars
    /\ UNCHANGED trackerVars
    /\ UNCHANGED traceVars
    /\ UNCHANGED <<dataKind, data, scorers, hasTask, test_cases, i, j, error,
                   scores, results, total_cost, calls>>

Next ==
    \/ \E kind \in ItemKinds : DataAdd(kind)
    \/ EvalStart
    \/ NoTask
    \/ \E o \in TaskOutputs : TaskReturns(o)
    \/ \E m \in TaskMessages : TaskRaises(m)
    \/ TaskArgumentFails
    \/ /\ pc = "score"
       /\ \E sr \in ScoreResultsOf(CurrentScorer) : ScorerReturns(sr)
    \/ ScorerRaises
    \/ BuildEvalResult
    \/ Finish

Spec == Init /\ [][Next]_vars

\* eval.py:95 when the call of the task never returns: nothing in Eval
\* limits the time of the call, the run stays in it.
TaskHangs ==
    /\ pc = "task"
    /\ hasTask
    /\ test_cases[i].kind = "TestCase"
    /\ calls' = Append(calls, [fn |-> "task", item |-> i, scorer |-> 0,
                               ok |-> FALSE, cost |-> Nothing])
    /\ pc' = "blocked"
    /\ UNCHANGED scorerVars
    /\ UNCHANGED compareVars
    /\ UNCHANGED datasetVars
    /\ UNCHANGED trackerVars
    /\ UNCHANGED traceVars
    /\ UNCHANGED <<dataKind, data, scorers, hasTask, test_cases, i, j, error,
                   scores, results, total_cost, summary, raised>>

\* eval.py:103 when the call of scorer j never returns.
ScorerHangs ==
    /\ pc = "score"
    /\ calls' = Append(calls, [fn |-> "scorer", item |-> i,
                               scorer |-> ScorerIndex(j, TheScorers),
                               ok |-> FALSE, cost |-> Nothing])
    /\ pc' = "blocked"
    /\ UNCHANGED scorerVars
    /\ UNCHANGED compareVars
    /\ UNCHANGED datasetVars
    /\ UNCHANGED trackerVars
    /\ UNCHANGED traceVars
    /\ UNCHANGED <<dataKind, data, scorers, hasTask, test_cases, i, j, error,
                   scores, results, total_cost, summary, raised>>

\* The steps of a run whose calls may also never return.
NextLive ==
    \/ Next
    \/ TaskHangs
    \/ ScorerHangs

\* Eval runs in one thread that nothing suspends: as long as a step is
\* possible the interpreter takes it.  A call that never returns leaves no
\* step possible.
SpecLive == Init /\ [][NextLive]_vars /\ WF_vars(NextLive)

\* ================================================================ scorers
\* ---------------------------------------------------------------- floats
\* A float is kept as a reduced fraction <<n, d>> with d > 0; <<0, 0>> is
\* NaN.
NaN == <<0, 0>>
IsNaN(x) == x[2] = 0

Abs(n) == IF n < 0 THEN 0 - n ELSE n

\* The float n / d (d > 0), n of either sign.
Rat(n, d) == LET g == GCD(Abs(n), d) IN <<n \div g, d \div g>>

\* x < y on floats: false as soon as one of them is NaN.
Less(x, y) == ~IsNaN(x) /\ ~IsNaN(y) /\ x[1] * y[2] < y[1] * x[2]

\* x >= y on floats: false as soon as one of them is NaN.
Geq(x, y) == ~IsNaN(x) /\ ~IsNaN(y) /\ x[1] * y[2] >= y[1] * x[2]

\* Python's min(a, b) and max(a, b): the first argument unless the second
\* is strictly smaller (larger).
PyMin(a, b) == IF Less(b, a) THEN b ELSE a
PyMax(a, b) == IF Less(a, b) THEN b ELSE a

\* llm_judge.py:98, faithfulness.py:99: max(0.0, min(1.0, score_val)).
Clamp(x) == PyMax(Rat(0, 1), PyMin(Rat(1, 1), x))

\* ------------------------------------------------- the text of a reply
\* The text a judge model replies with is a sequence of tokens.  Blanks
\* between tokens are not kept; a line break is the token "\n".  The
\* language tag "json" is the only word written directly after a fence.
\* The fence of three backquotes is written with three apostrophes, a
\* backquote not being a character of a string here.
Fence == "'''"
Tag == "json"
NL == "\n"
KScore == "\"score\""
KReason == "\"reason\""

\* The JSON numbers of the replies and the floats they denote (json.loads
\* of Python reads NaN).
NumberTokens == {"0.5", "1.5", "-1", "NaN"}
NumValue(tok) ==
    CASE tok = "0.5" -> Rat(1, 2)
      [] tok = "1.5" -> Rat(3, 2)
      [] tok = "-1" -> Rat(-1, 1)
      [] tok = "1.2.3" -> NaN
      [] OTHER -> NaN

\* The tokens the pattern [0-9.]+ matches as a whole.
DigitTokens == {"0.5", "1.5", "1.2.3"}

\* The tokens among them float() cannot read (ValueError).
NotAFloat == {"1.2.3"}

\* The JSON string literals of the replies and their contents.
StringTokens == {KScore, KReason, "\"ok\"", "\"0.5\"", "\"\""}
StrContent(tok) ==
    CASE tok = KScore -> "score"
      [] tok = KReason -> "reason"
      [] tok = "\"ok\"" -> "ok"
      [] tok = "\"0.5\"" -> "0.5"
      [] OTHER -> ""

\* The token at place p, "" past the end.
At(toks, p) == IF p \in DOMAIN toks THEN toks[p] ELSE ""

RECURSIVE SkipWs(_, _)
\* The first place from p on that holds no white space.
SkipWs(toks, p) ==
    IF At(toks, p) = NL THEN SkipWs(toks, p + 1) ELSE p

\* str.strip().
RECURSIVE Strip(_)
Strip(toks) ==
    IF toks = <<>> THEN toks
    ELSE IF Head(toks) = NL THEN Strip(Tail(toks))
    ELSE IF toks[Len(toks)] = NL THEN Strip(SubSeq(toks, 1, Len(toks) - 1))
    ELSE toks

\* --------------------------------------------------------------- json.loads
\* A parsed JSON value: its type t ("num", "str", "null", "bool", "list",
\* "dict"), its token for a number or a string, and for an object its
\* members "score" and "reason" (Nothing if absent).
Scalar(t, tok) == [t |-> t, tok |-> tok, score |-> Nothing, reason |-> Nothing]
ParseFail == [ok |-> FALSE, val |-> Scalar("null", ""), next |-> 0]
ParseOk(val, next) == [ok |-> TRUE, val |-> val, next |-> next]

RECURSIVE ParseValue(_, _)
RECURSIVE ParseItems(_, _)
RECURSIVE ParseMembers(_, _, _)

\* A JSON value starting at place p.
ParseValue(toks, p) ==
    LET q == SkipWs(toks, p)
        tok == At(toks, q)
    IN IF tok \in NumberTokens THEN ParseOk(Scalar("num", tok), q + 1)
       ELSE IF tok \in StringTokens THEN ParseOk(Scalar("str", tok), q + 1)
       ELSE IF tok = "null" THEN ParseOk(Scalar("null", tok), q + 1)
       ELSE IF tok = "true" THEN ParseOk(Scalar("bool", tok), q + 1)
       ELSE IF tok = "["
       THEN IF At(toks, SkipWs(toks, q + 1)) = "]"
            THEN ParseOk(Scalar("list", ""), SkipWs(toks, q + 1) + 1)
            ELSE ParseItems(toks, q + 1)
       ELSE IF tok = "{"
       THEN IF At(toks, SkipWs(toks, q + 1)) = "}"
            THEN ParseOk(Scalar("dict", ""), SkipWs(toks, q + 1) + 1)
            ELSE ParseMembers(toks, q + 1, Scalar("dict", ""))
       ELSE ParseFail

\* The items of an array from place p on, up to its "]".
ParseItems(toks, p) ==
    LET r == ParseValue(toks, p)
        q == SkipWs(toks, r.next)
    IN IF ~r.ok THEN ParseFail
       ELSE IF At(toks, q) = "," THEN ParseItems(toks, q + 1)
       ELSE IF At(toks, q) = "]" THEN ParseOk(Scalar("list", ""), q + 1)
       ELSE ParseFail

\* The members of an object from place p on, up to its "}"; acc holds the
\* members read so far (a repeated key keeps the last value).
ParseMembers(toks, p, acc) ==
    LET k == SkipWs(toks, p)
        c == SkipWs(toks, k + 1)
        r == ParseValue(toks, c + 1)
        q == SkipWs(toks, r.next)
        key == At(toks, k)
        acc2 == IF key = KScore THEN [acc EXCEPT !.score = Some(r.val)]
                ELSE IF key = KReason THEN [acc EXCEPT !.reason = Some(r.val)]
                ELSE acc
    IN IF key \notin StringTokens \/ At(toks, c) # ":" THEN ParseFail
       ELSE IF ~r.ok THEN ParseFail
       ELSE IF At(toks, q) = "," THEN ParseMembers(toks, q + 1, acc2)
       ELSE IF At(toks, q) = "}" THEN ParseOk(acc2, q + 1)
       ELSE ParseFail

\* json.loads(toks): ok is false for JSONDecodeError (no value, or text
\* after the value).
json_loads(toks) ==
    LET r == ParseValue(toks, 1)
    IN IF r.ok /\ SkipWs(toks, r.next) > Len(toks) THEN r ELSE ParseFail

\* ----------------------------------------------------------- the fences
\* str.rstrip().
RECURSIVE RStrip(_)
RStrip(toks) ==
    IF toks # <<>> /\ toks[Len(toks)] = NL
    THEN RStrip(SubSeq(toks, 1, Len(toks) - 1))
    ELSE toks

\* llm_judge.py:159: re.sub(r'^```[a-zA-Z]*\n?', '', cleaned), for a text
\* that starts with a fence.
DropOpeningFence(toks) ==
    LET a == Tail(toks)
        b == IF a # <<>> /\ Head(a) = Tag THEN Tail(a) ELSE a
    IN IF b # <<>> /\ Head(b) = NL THEN Tail(b) ELSE b

\* llm_judge.py:161: re.sub(r'```\s*$', '', cleaned).
DropClosingFence(toks) ==
    LET t == RStrip(toks)
    IN IF t # <<>> /\ t[Len(t)] = Fence
       THEN SubSeq(t, 1, Len(t) - 1)
       ELSE toks

\* A variant of Cleaned that leaves the fences in place.
CleanedAsIs(content) == Strip(content)

\* llm_judge.py:156-161: content.strip(), and without its fences a text
\* that starts with one.
Cleaned(content) ==
    LET c == Strip(content)
    IN IF c # <<>> /\ Head(c) = Fence
       THEN Strip(DropClosingFence(DropOpeningFence(c)))
       ELSE c

\* ------------------------------------------------------------ the slices
JudgePrefixLen == 200
FaithPrefixLen == 100

\* content[:n], for a cut that falls between two tokens: the longest run
\* of whole tokens of at most n characters.
RECURSIVE Prefix(_, _)
Prefix(toks, n) ==
    IF toks = <<>> \/ Len(Head(toks)) > n THEN <<>>
    ELSE <<Head(toks)>> \o Prefix(Tail(toks), n - Len(Head(toks)))

\* ------------------------------------------------------- the try block
\* A reason as _parse_response returns it: its JSON type t and, for a
\* string, its text (a sequence of pieces).
StrReason(text) == [t |-> "str", text |-> text]
ReasonOf(val) ==
    [t |-> val.t,
     text |-> IF val.t = "str" THEN <<StrContent(val.tok)>> ELSE <<>>]

\* float(val): ok is false for the ValueError (a string that is no
\* number) or TypeError (None, a list, a dict) float() raises.
FloatOf(val) ==
    CASE val.t = "num" -> [ok |-> TRUE, x |-> NumValue(val.tok)]
      [] val.t = "bool" -> [ok |-> TRUE, x |-> Rat(1, 1)]
      [] val.t = "str" /\ StrContent(val.tok) \in NumberTokens ->
            [ok |-> TRUE, x |-> NumValue(StrContent(val.tok))]
      [] OTHER -> [ok |-> FALSE, x |-> NaN]

\* What _parse_response comes to: how is "json", "regex" or "failed" for
\* the return statement reached, "caught" for an exception of the except
\* clause, "AttributeError" for the exception that leaves the function.
Parsed(how, score, reason) == [how |-> how, score |-> score, reason |-> reason]

\* llm_judge.py:163-169, faithfulness.py:155-160: json.loads, then
\* parsed.get("score", 0.0) through float(), then parsed.get("reason", "").
\* A value that is no dict has no .get: AttributeError, which the except
\* clause does not name.
StrictParse(toks) ==
    LET r == json_loads(toks)
        f == IF r.val.score = Nothing
             THEN [ok |-> TRUE, x |-> Rat(0, 1)]
             ELSE FloatOf(r.val.score[1])
        reason == IF r.val.reason = Nothing
                  THEN StrReason(<<"">>)
                  ELSE ReasonOf(r.val.reason[1])
    IN IF ~r.ok THEN Parsed("caught", NaN, StrReason(<<>>))
       ELSE IF r.val.t # "dict"
       THEN Parsed("AttributeError", NaN, StrReason(<<>>))
       ELSE IF ~f.ok THEN Parsed("caught", NaN, StrReason(<<>>))
       ELSE Parsed("json", f.x, reason)

\* ------------------------------------------------------ the regex search
\* llm_judge.py:172: re.search(r'"score"\s*:\s*([0-9.]+)', content) from
\* place p on: the group of the first match, "" without a match.
RECURSIVE SearchScore(_, _)
SearchScore(toks, p) ==
    IF p > Len(toks) THEN ""
    ELSE LET c == SkipWs(toks, p + 1)
             d == SkipWs(toks, c + 1)
         IN IF /\ toks[p] = KScore
               /\ At(toks, c) = ":"
               /\ At(toks, d) \in DigitTokens
            THEN At(toks, d)
            ELSE SearchScore(toks, p + 1)

\* llm_judge.py:173: re.search(r'"reason"\s*:\s*"([^"]+)"', content) from
\* place p on: the group of the first match, "" without a match.
RECURSIVE SearchReason(_, _)
SearchReason(toks, p) ==
    IF p > Len(toks) THEN ""
    ELSE LET c == SkipWs(toks, p + 1)
             d == SkipWs(toks, c + 1)
         IN IF /\ toks[p] = KReason
               /\ At(toks, c) = ":"
               /\ At(toks, d) \in StringTokens
               /\ StrContent(At(toks, d)) # ""
            THEN StrContent(At(toks, d))
            ELSE SearchReason(toks, p + 1)

\* ------------------------------------------------------- _parse_response
\* LLMJudgeScorer._parse_response, llm_judge.py:141-182.
LLMJudge_parse_response(content) ==
    LET strict == StrictParse(Cleaned(content))
        score_match == SearchScore(content, 1)
        reason_match == SearchReason(content, 1)
    IN IF strict.how # "caught" THEN strict
       ELSE IF score_match # "" /\ score_match \notin NotAFloat
       THEN Parsed("regex", NumValue(score_match),
                   IF reason_match # ""
                   THEN StrReason(<<reason_match>>)
                   ELSE StrReason(<<"Extracted via regex">>))
       ELSE Parsed("failed", Rat(0, 1),
                   StrReason(<<"Failed to parse judge response: ">>
                             \o Prefix(content, JudgePrefixLen)))

\* FaithfulnessScorer._parse_response, faithfulness.py:145-162.
Faithfulness_parse_response(content) ==
    LET strict == StrictParse(content)
    IN IF strict.how # "caught" THEN strict
       ELSE Parsed("failed", Rat(0, 1),
                   StrReason(<<"Failed to parse response: ">>
                             \o Prefix(content, FaithPrefixLen)))

\* ------------------------------------------------------------------ cost
\* cost.py:13-22, in units of 10^-8 USD for one token (the table gives USD
\* for a million tokens).
MODEL_PRICING ==
    [m \in {"gpt-4o-mini", "text-embedding-3-small"} |->
        IF m = "gpt-4o-mini"
        THEN [input |-> 15, output |-> 60]
        ELSE [input |-> 2, output |-> 0]]

\* cost.py:79-102, in units of 10^-8 USD.
calculate_cost(model, prompt_tokens, completion_tokens) ==
    IF model \notin DOMAIN MODEL_PRICING THEN 0
    ELSE prompt_tokens * MODEL_PRICING[model].input
         + completion_tokens * MODEL_PRICING[model].output

\* ----------------------------------------------------------- ScoreResult
\* types.py:14-33.  Optional fields hold Nothing or Some(value).
ScoreResult(name, value, reason, passed, threshold, token_usage, cost_usd) ==
    [name |-> name, value |-> value, reason |-> reason, passed |-> passed,
     threshold |-> threshold, token_usage |-> token_usage,
     cost_usd |-> cost_usd]

\* types.py:29, reason: Optional[str].  pydantic refuses a reason that is
\* neither a string nor None (ValidationError).
ReasonIsValid(reason) == reason.t \in {"str", "null"}

\* The reason field of a ScoreResult, for a valid reason.
ReasonField(reason) == IF reason.t = "null" THEN Nothing ELSE Some(reason.text)

\* How a call of score ends: status "returned" with the result, or
\* "raised" with the exception's class; client_calls counts the requests
\* sent to the client on the way.
Returned(result, n) ==
    [status |-> "returned", exc |-> None, result |-> Some(result),
     client_calls |-> n]
Raised(exc, n) ==
    [status |-> "raised", exc |-> exc, result |-> Nothing, client_calls |-> n]

\* A variant of Truthy that takes the empty string for an output.
TruthyIfNotNone(str) == str # None

\* Python's truth value of a string or None.
Truthy(str) == str \notin {None, ""}

\* response.usage.<field> if response.usage else 0.
UsageOr0(usage, field) == IF usage = Nothing THEN 0 ELSE usage[1][field]

\* llm_judge.py:94-116 and faithfulness.py:96-116: from the parsed reply to
\* the ScoreResult.
JudgeResult(scorer, parsed, usage) ==
    LET score_val == Clamp(parsed.score)
        tokens == UsageOr0(usage, "total_tokens")
        cost == calculate_cost(scorer.model,
                               UsageOr0(usage, "prompt_tokens"),
                               UsageOr0(usage, "completion_tokens"))
    IN IF parsed.how = "AttributeError" THEN Raised("AttributeError", 1)
       ELSE IF ~ReasonIsValid(parsed.reason) THEN Raised("ValidationError", 1)
       ELSE Returned(ScoreResult(scorer.name, score_val,
                                 ReasonField(parsed.reason),
                                 Some(Geq(score_val, scorer.threshold)),
                                 Some(scorer.threshold),
                                 Some(tokens), Some(cost)), 1)

\* LLMJudgeScorer.score, llm_judge.py:61-116; r is the client's response.
LLMJudge_score(scorer, tc, r) ==
    IF ~Truthy(tc.actual_output)
    THEN Returned(ScoreResult(scorer.name, Rat(0, 1),
                              Some(<<"No actual output to judge">>),
                              Some(FALSE), Some(scorer.threshold),
                              Nothing, Nothing), 0)
    ELSE JudgeResult(scorer, LLMJudge_parse_response(r.content), r.usage)

\* FaithfulnessScorer.score, faithfulness.py:53-116.
Faithfulness_score(scorer, tc, r) ==
    IF tc.context = Nothing THEN Raised("ValueError", 0)
    ELSE IF ~Truthy(tc.actual_output)
    THEN Returned(ScoreResult(scorer.name, Rat(0, 1),
                              Some(<<"actual_output is empty">>),
                              Some(FALSE), Some(scorer.threshold),
                              Nothing, Nothing), 0)
    ELSE JudgeResult(scorer, Faithfulness_parse_response(r.content), r.usage)

\* ------------------------------------------------------------ Similarity
Dot(a, b) == a[1] * b[1] + a[2] * b[2]

\* np.linalg.norm, for the vectors of Embeddings, whose norms are whole.
Norm(a) == CHOOSE n \in 0..Dot(a, a) : n * n = Dot(a, a)

\* similarity.py:111-123: dot(a, b) / (norm(a) * norm(b)); the division of
\* zero by zero is NaN.
cosine_similarity(a, b) ==
    IF Norm(a) * Norm(b) = 0 THEN NaN
    ELSE Rat(Dot(a, b), Norm(a) * Norm(b))

\* SimilarityScorer.score, similarity.py:48-94; r holds the client's two
\* responses, for expected_output and for actual_output.
Similarity_score(scorer, tc, r) ==
    LET similarity == cosine_similarity(r.expected.embedding,
                                        r.actual.embedding)
        total_tokens == UsageOr0(r.expected.usage, "total_tokens")
                        + UsageOr0(r.actual.usage, "total_tokens")
        cost == calculate_cost(scorer.model, total_tokens, 0)
    IN IF tc.expected_output = None THEN Raised("ValueError", 0)
       ELSE IF ~Truthy(tc.actual_output)
       THEN Returned(ScoreResult(scorer.name, Rat(0, 1),
                                 Some(<<"actual_output is empty">>),
                                 Some(FALSE), Some(scorer.threshold),
                                 Nothing, Nothing), 0)
       ELSE Returned(ScoreResult(scorer.name, similarity,
                                 Some(<<"Cosine similarity: ", "{:.4f}">>),
                                 Some(Geq(similarity, scorer.threshold)),
                                 Some(scorer.threshold),
                                 Some(total_tokens), Some(cost)), 2)

\* ------------------------------------------------- what a client answers
\* The token usage a response carries: none, or some counts.
Usages ==
    {Nothing,
     Some([prompt_tokens |-> 2, completion_tokens |-> 1, total_tokens |-> 3])}

\* The embedding vectors a client may return.
Embeddings == {<<1, 0>>, <<0, 1>>, <<-1, 0>>, <<3, 4>>, <<0, 0>>}

EmbeddingResponses == [embedding : Embeddings, usage : Usages]

\* The two responses SimilarityScorer asks for.
EmbeddingReplies == [expected : EmbeddingResponses, actual : EmbeddingResponses]

\* What may stand after "score": and after "reason": in a reply.
ScoreTexts ==
    {<<"0.5">>, <<"1.5">>, <<"-1">>, <<"NaN">>, <<"\"0.5\"">>, <<"\"ok\"">>,
     <<"null">>, <<"true">>, <<"[", "]">>, <<"1.2.3">>}
ReasonTexts ==
    {<<"\"ok\"">>, <<"\"\"">>, <<"null">>, <<"0.5">>, <<"true">>,
     <<"[", "\"ok\"", "]">>}

\* JSON objects, well formed but for the values they hold.
ObjectTexts ==
    {<<"{", KScore, ":">> \o st \o <<",", KReason, ":">> \o rt \o <<"}">> :
        st \in ScoreTexts, rt \in ReasonTexts}
    \cup {<<"{", KScore, ":">> \o st \o <<"}">> : st \in ScoreTexts}
    \cup {<<"{", KReason, ":">> \o rt \o <<"}">> : rt \in ReasonTexts}
    \cup {<<"{", "}">>, <<"{", "\"ok\"", ":", "0.5", "}">>}

\* JSON that is no object.
BareTexts ==
    {<<"0.5">>, <<"\"ok\"">>, <<"null">>, <<"true">>, <<"[", "0.5", "]">>}

\* An object cut short after k tokens.
WholeObject == <<"{", KScore, ":", "0.5", ",", KReason, ":", "\"ok\"", "}">>
TruncatedTexts ==
    {SubSeq(WholeObject, 1, k) : k \in 1..(Len(WholeObject) - 1)}

\* A word of fifty letters, and a text of such words that is longer than
\* the slice kept in the failure reason.
LongWord == "xxxxxxxxxxxxxxxxxxxxxxxxxxxxxxxxxxxxxxxxxxxxxxxxxx"
LongText == [k \in 1..(JudgePrefixLen \div Len(LongWord) + 1) |-> LongWord]

\* Prose: nothing at all, a word, a sentence quoting a score, a long text.
ProseTexts ==
    {<<>>, <<"x">>, <<"x", KScore, ":", "0.5", "x">>, LongText}

\* A text as it is, inside a fence with or without tag and line breaks,
\* inside a fence after a word, and with the closing fence missing.
Presentations(t) ==
    {t,
     <<Fence, Tag, NL>> \o t \o <<NL, Fence>>,
     <<NL, Fence, NL>> \o t \o <<NL, Fence, NL>>,
     <<Fence>> \o t \o <<Fence>>,
     <<"x", NL, Fence, Tag, NL>> \o t \o <<NL, Fence>>,
     <<Fence, Tag, NL>> \o t}

ReplyTexts ==
    UNION {Presentations(t) :
              t \in ObjectTexts \cup BareTexts \cup TruncatedTexts \cup ProseTexts}

\* The response of a chat completion: message.content and usage.
JudgeReplies == [content : ReplyTexts, usage : Usages]

\* ------------------------------------------------------------ ExactMatch
\* A text is a sequence of letters; an optional text is Nothing (None) or
\* Some(text).
Letters == {"a", "A", "b"}

\* str.lower() on one letter.
LowerLetter(c) == IF c = "A" THEN "a" ELSE c

\* str.lower().
Lower(text) == [k \in DOMAIN text |-> LowerLetter(text[k])]

\* The texts of at most n letters.
TextsUpTo(n) == UNION {[1..k -> Letters] : k \in 0..n}

\* A variant of Matches that compares the texts as they are, whatever
\* case_sensitive says.
MatchesAsWritten(scorer, tc) == tc.actual_output[1] = tc.expected_output[1]

\* exact_match.py:65-68.
Matches(scorer, tc) ==
    IF scorer.case_sensitive
    THEN tc.actual_output[1] = tc.expected_output[1]
    ELSE Lower(tc.actual_output[1]) = Lower(tc.expected_output[1])

\* ExactMatchScorer.score, exact_match.py:40-83.
ExactMatch_score(scorer, tc) ==
    IF tc.expected_output = Nothing THEN Raised("ValueError", 0)
    ELSE IF tc.actual_output = Nothing
    THEN Returned(ScoreResult(scorer.name, Rat(0, 1),
                              Some(<<"actual_output is None">>),
                              Some(FALSE), Some(scorer.threshold),
                              Nothing, Nothing), 0)
    ELSE LET value == IF Matches(scorer, tc) THEN Rat(1, 1) ELSE Rat(0, 1)
             reason == IF Matches(scorer, tc)
                       THEN <<"Outputs match exactly">>
                       ELSE <<"Expected '", "', got '", "'">>
         IN Returned(ScoreResult(scorer.name, value, Some(reason),
                                 Some(Geq(value, scorer.threshold)),
                                 Some(scorer.threshold), Nothing, Nothing), 0)

\* -------------------------------------------------------------- Contains
\* kw in text: the keyword stands in the text at some offset.
Contains(text, kw) ==
    \E o \in 0..(Len(text) - Len(kw)) :
       SubSeq(text, o + 1, o + Len(kw)) = kw

\* contains.py:59-62, 134-137: the keywords found in the output, case
\* apart, in the order of the list.
Found(keywords, text) ==
    SelectSeq(keywords, LAMBDA kw : Contains(Lower(text), Lower(kw)))

\* not test_case.actual_output: the output is None or the empty string.
NoOutput(tc) == tc.actual_output = Nothing \/ tc.actual_output[1] = <<>>

\* ContainsAnyScorer.score, contains.py:40-77.
ContainsAny_score(scorer, tc) ==
    IF NoOutput(tc)
    THEN Returned(ScoreResult(scorer.name, Rat(0, 1),
                              Some(<<"actual_output is empty">>),
                              Some(FALSE), Some(scorer.threshold),
                              Nothing, Nothing), 0)
    ELSE LET found == Found(scorer.keywords, tc.actual_output[1])
             value == IF found # <<>> THEN Rat(1, 1) ELSE Rat(0, 1)
             reason == IF found # <<>>
                       THEN <<"Found keywords: ">>
                       ELSE <<"None of ", " found in output">>
         IN Returned(ScoreResult(scorer.name, value, Some(reason),
                                 Some(Geq(value, scorer.threshold)),
                                 Some(scorer.threshold), Nothing, Nothing), 0)

\* ContainsAllScorer.score, contains.py:106-148.
ContainsAll_score(scorer, tc) ==
    IF scorer.keywords = <<>>
    THEN Returned(ScoreResult(scorer.name, Rat(1, 1),
                              Some(<<"No keywords specified">>),
                              Some(TRUE), Some(scorer.threshold),
                              Nothing, Nothing), 0)
    ELSE IF NoOutput(tc)
    THEN Returned(ScoreResult(scorer.name, Rat(0, 1),
                              Some(<<"actual_output is empty">>),
                              Some(FALSE), Some(scorer.threshold),
                              Nothing, Nothing), 0)
    ELSE LET found == Found(scorer.keywords, tc.actual_output[1])
             value == Rat(Len(found), Len(scorer.keywords))
         IN Returned(ScoreResult(scorer.name, value,
                                 Some(<<"Found ", "/", " keywords: ">>),
                                 Some(Geq(value, scorer.threshold)),
                                 Some(scorer.threshold), Nothing, Nothing), 0)

\* ------------------------------------------------------- ToolCorrectness
\* set(seq).
Range(seq) == {seq[k] : k \in DOMAIN seq}

\* The first place from a on where the tool stands in actual, 0 if it
\* stands nowhere from there on.
FirstFrom(actual, a, tool) ==
    IF \E h \in a..Len(actual) : actual[h] = tool
    THEN CHOOSE h \in a..Len(actual) :
            /\ actual[h] = tool
            /\ \A g \in a..(h - 1) : actual[g] # tool
    ELSE 0

\* A variant of MatchedInOrder that looks for every expected tool from the
\* start of actual, not from where the last search stopped.
RECURSIVE MatchedFromStart(_, _, _)
MatchedFromStart(expected, actual, a) ==
    IF expected = <<>> THEN 0
    ELSE (IF FirstFrom(actual, 1, Head(expected)) = 0 THEN 0 ELSE 1)
         + MatchedFromStart(Tail(expected), actual, a)

\* A variant of MatchedInOrder in which a search that finds nothing leaves
\* the iterator where it was, so that later expected tools may still match.
RECURSIVE MatchedResuming(_, _, _)
MatchedResuming(expected, actual, a) ==
    IF expected = <<>> THEN 0
    ELSE LET h == FirstFrom(actual, a, Head(expected))
         IN IF h = 0
            THEN MatchedResuming(Tail(expected), actual, a)
            ELSE 1 + MatchedResuming(Tail(expected), actual, h + 1)

\* tool_correctness.py:72-78: the expected tools matched in order.  The
\* iterator over actual, at place a, is shared by the searches: a search
\* goes on where the last one stopped, and one that finds nothing leaves
\* the iterator at its end.
RECURSIVE MatchedInOrder(_, _, _)
MatchedInOrder(expected, actual, a) ==
    IF expected = <<>> THEN 0
    ELSE LET h == FirstFrom(actual, a, Head(expected))
         IN IF h = 0
            THEN MatchedInOrder(Tail(expected), actual, Len(actual) + 1)
            ELSE 1 + MatchedInOrder(Tail(expected), actual, h + 1)

\* A variant of MatchedAnyOrder that counts the tools common to the two
\* lists, each tool once.
MatchedAsSets(expected, actual) ==
    Cardinality(Range(expected) \cap Range(actual))

\* A variant of MatchedAnyOrder that matches in order.
MatchedOrdered(expected, actual) == MatchedInOrder(expected, actual, 1)

\* tool_correctness.py:84-85: the entries of expected whose tool is in the
\* set of the tools called.
MatchedAnyOrder(expected, actual) ==
    Cardinality({k \in DOMAIN expected : expected[k] \in Range(actual)})

\* ToolCorrectnessScorer.score, tool_correctness.py:41-95.
ToolCorrectness_score(scorer, tc) ==
    IF tc.expected_tools = Nothing THEN Raised("ValueError", 0)
    ELSE IF tc.tools_called = Nothing
    THEN Returned(ScoreResult(scorer.name, Rat(0, 1),
                              Some(<<"tools_called is None">>),
                              Some(FALSE), Some(scorer.threshold),
                              Nothing, Nothing), 0)
    ELSE LET expected == tc.expected_tools[1]
             actual == tc.tools_called[1]
             matched == IF scorer.check_order
                        THEN MatchedInOrder(expected, actual, 1)
                        ELSE MatchedAnyOrder(expected, actual)
             value == IF expected # <<>>
                      THEN Rat(matched, Len(expected))
                      ELSE Rat(1, 1)
             reason == IF scorer.check_order
                       THEN <<"Matched ", "/", " tools in order">>
                       ELSE <<"Matched ", "/", " expected tools (extra tools: ",
                              ")">>
         IN Returned(ScoreResult(scorer.name, value, Some(reason),
                                 Some(Geq(value, scorer.threshold)),
                                 Some(scorer.threshold), Nothing, Nothing), 0)

\* -------------------------------------------------------- FunctionScorer
\* What the call of the wrapped function comes to: a float, or an
\* exception of the function's.
FnReturns(value) == [raised |-> FALSE, value |-> value]
FnRaises == [raised |-> TRUE, value |-> NaN]

\* FunctionScorer.score, base.py:67-89; r is what self.fn(test_case) comes
\* to.
Function_score(scorer, tc, r) ==
    IF r.raised THEN Raised("Exception", 0)
    ELSE Returned(ScoreResult(scorer.name, r.value, Nothing,
                              Some(Geq(r.value, scorer.threshold)),
                              Some(scorer.threshold), Nothing, Nothing), 0)

\* --------------------------------------------------- scorers and test cases
Thresholds == {Rat(1, 2), Rat(0, 1), Rat(3, 2)}

ScorerKinds == {"LLMJudge", "Faithfulness", "Similarity"}

\* The model a scorer is built with: its default, or one without a price.
ModelsOf(kind) ==
    IF kind = "Similarity"
    THEN {"text-embedding-3-small", "local-model"}
    ELSE {"gpt-4o-mini", "local-model"}

\* The scorers that ask a client.
ClientScorers ==
    UNION {[kind : {kind}, name : {kind}, threshold : Thresholds,
            model : ModelsOf(kind)] : kind \in ScorerKinds}

\* exact_match.py:27-38.
ExactMatchScorers ==
    [kind : {"ExactMatch"}, name : {"ExactMatch"}, threshold : Thresholds,
     case_sensitive : BOOLEAN]

\* The keywords a contains scorer may be built with, the empty string
\* among them, and the lists of them, repeats included.
Keywords == {<<>>, <<"a">>, <<"A", "b">>, <<"b">>}
KeywordLists == UNION {[1..k -> Keywords] : k \in 0..MaxKeywords}

\* contains.py:27-38, 93-104.
ContainsScorers ==
    UNION {[kind : {kind}, name : {kind}, threshold : Thresholds,
            keywords : KeywordLists] : kind \in {"ContainsAny", "ContainsAll"}}

\* tool_correctness.py:27-39.
ToolScorers ==
    [kind : {"ToolCorrectness"}, name : {"ToolCorrectness"},
     threshold : Thresholds, check_order : BOOLEAN]

BuiltinScorers ==
    ClientScorers \cup ExactMatchScorers \cup ContainsScorers \cup ToolScorers

\* base.py:54-65.
FunctionScorers ==
    [kind : {"Function"}, name : {"custom"}, threshold : Thresholds]

\* What a wrapped function may come to; it is free to leave [0.0, 1.0].
FnResults ==
    {FnReturns(v) : v \in {Rat(0, 1), Rat(1, 2), Rat(1, 1), Rat(2, 1)}}
    \cup {FnRaises}

AllScorers == BuiltinScorers \cup FunctionScorers

\* test_case.py: the fields of a test case the scorers with a client read.
TestCases ==
    [actual_output : {None, "", "answer"},
     expected_output : {None, "expected"},
     context : {Nothing, Some(<<"doc">>)}]

\* Nothing, or Some(x) for an x of S.
Optional(S) == {Nothing} \cup {Some(x) : x \in S}

\* test_case.py: the fields of a test case the string scorers read.
TextTestCases ==
    [actual_output : Optional(TextsUpTo(MaxTextLen)),
     expected_output : Optional(TextsUpTo(MaxTextLen))]

\* test_case.py: the field of a test case the contains scorers read.
OutputTestCases == [actual_output : Optional(TextsUpTo(MaxTextLen))]

\* The names of the tools, and the lists of at most n of them.
Tools == {"A", "B", "C"}
ToolListsUpTo(n) == UNION {[1..k -> Tools] : k \in 0..n}

\* test_case.py: the fields of a test case the tool scorer reads.
ToolTestCases ==
    [tools_called : Optional(ToolListsUpTo(MaxTools)),
     expected_tools : Optional(ToolListsUpTo(MaxTools))]

\* The test cases a scorer of the kind is tried on.
TestCasesOf(kind) ==
    IF kind \in ScorerKinds THEN TestCases
    ELSE IF kind = "ExactMatch" THEN TextTestCases
    ELSE IF kind = "ToolCorrectness" THEN ToolTestCases
    ELSE OutputTestCases

\* ------------------------------------------------- a scorer run on its own
InitScorers ==
    /\ pc = "idle"
    /\ dataKind = "list"
    /\ data = <<>>
    /\ scorers = Nothing
    /\ hasTask = FALSE
    /\ test_cases = <<>>
    /\ i = 0
    /\ j = 0
    /\ error = None
    /\ scores = EmptyDict
    /\ results = <<>>
    /\ total_cost = 0
    /\ summary = EmptyDict
    /\ raised = None
    /\ calls = <<>>
    /\ self \in AllScorers
    /\ test_case \in TestCasesOf(self.kind)
    /\ reply = Nothing
    /\ outcome = [status |-> "pending", exc |-> None, result |-> Nothing,
                  client_calls |-> 0]
    /\ NoComparison
    /\ NoDataset
    /\ NoTracker
    /\ NoTracing

\* Some(r) if the call that ended as o asked the client, Nothing if not.
Asked(o, r) == IF o.client_calls > 0 THEN Some(r) ELSE Nothing

\* self.score(test_case) runs to its end, for each class of scorer; r is
\* what the client answers if it is asked.
ScoreLLMJudge(r) ==
    /\ outcome.status = "pending"
    /\ self.kind = "LLMJudge"
    /\ outcome' = LLMJudge_score(self, test_case, r)
    /\ reply' = Asked(outcome', r)
    /\ UNCHANGED <<self, test_case>>
    /\ UNCHANGED evalVars
    /\ UNCHANGED compareVars
    /\ UNCHANGED datasetVars
    /\ UNCHANGED trackerVars
    /\ UNCHANGED traceVars

ScoreFaithfulness(r) ==
    /\ outcome.status = "pending"
    /\ self.kind = "Faithfulness"
    /\ outcome' = Faithfulness_score(self, test_case, r)
    /\ reply' = Asked(outcome', r)
    /\ UNCHANGED <<self, test_case>>
    /\ UNCHANGED evalVars
    /\ UNCHANGED compareVars
    /\ UNCHANGED datasetVars
    /\ UNCHANGED trackerVars
    /\ UNCHANGED traceVars

ScoreSimilarity(r) ==
    /\ outcome.status = "pending"
    /\ self.kind = "Similarity"
    /\ outcome' = Similarity_score(self, test_case, r)
    /\ reply' = Asked(outcome', r)
    /\ UNCHANGED <<self, test_case>>
    /\ UNCHANGED evalVars
    /\ UNCHANGED compareVars
    /\ UNCHANGED datasetVars
    /\ UNCHANGED trackerVars
    /\ UNCHANGED traceVars

ScoreExactMatch ==
    /\ outcome.status = "pending"
    /\ self.kind = "ExactMatch"
    /\ outcome' = ExactMatch_score(self, test_case)
    /\ UNCHANGED <<self, test_case, reply>>
    /\ UNCHANGED evalVars
    /\ UNCHANGED compareVars
    /\ UNCHANGED datasetVars
    /\ UNCHANGED trackerVars
    /\ UNCHANGED traceVars

ScoreContainsAny ==
    /\ outcome.status = "pending"
    /\ self.kind = "ContainsAny"
    /\ outcome' = ContainsAny_score(self, test_case)
    /\ UNCHANGED <<self, test_case, reply>>
    /\ UNCHANGED evalVars
    /\ UNCHANGED compareVars
    /\ UNCHANGED datasetVars
    /\ UNCHANGED trackerVars
    /\ UNCHANGED traceVars

ScoreContainsAll ==
    /\ outcome.status = "pending"
    /\ self.kind = "ContainsAll"
    /\ outcome' = ContainsAll_score(self, test_case)
    /\ UNCHANGED <<self, test_case, reply>>
    /\ UNCHANGED evalVars
    /\ UNCHANGED compareVars
    /\ UNCHANGED datasetVars
    /\ UNCHANGED trackerVars
    /\ UNCHANGED traceVars

ScoreToolCorrectness ==
    /\ outcome.status = "pending"
    /\ self.kind = "ToolCorrectness"
    /\ outcome' = ToolCorrectness_score(self, test_case)
    /\ UNCHANGED <<self, test_case, reply>>
    /\ UNCHANGED evalVars
    /\ UNCHANGED compareVars
    /\ UNCHANGED datasetVars
    /\ UNCHANGED trackerVars
    /\ UNCHANGED traceVars

ScoreFunction(r) ==
    /\ outcome.status = "pending"
    /\ self.kind = "Function"
    /\ outcome' = Function_score(self, test_case, r)
    /\ UNCHANGED <<self, test_case, reply>>
    /\ UNCHANGED evalVars
    /\ UNCHANGED compareVars
    /\ UNCHANGED datasetVars
    /\ UNCHANGED trackerVars
    /\ UNCHANGED traceVars

NextScorers ==
    \/ ScoreExactMatch
    \/ ScoreContainsAny
    \/ ScoreContainsAll
    \/ ScoreToolCorrectness
    \/ \E r \in FnResults : ScoreFunction(r)
    \/ \E r \in JudgeReplies : ScoreLLMJudge(r)
    \/ \E r \in JudgeReplies : ScoreFaithfulness(r)
    \/ \E r \in EmbeddingReplies : ScoreSimilarity(r)

SpecScorers == InitScorers /\ [][NextScorers]_vars

\* ==================================================== compare_experiments
\* The float x - y.
Minus(x, y) ==
    IF IsNaN(x) \/ IsNaN(y) THEN NaN
    ELSE Rat(x[1] * y[2] - y[1] * x[2], x[2] * y[2])

\* The statistics of one scorer in a summary hold a mean or, in a summary
\* the caller built, none: [mean |-> Nothing].  NoStats is the {} of
\* experiment.py:69.
NoStats == [mean |-> Nothing]

\* experiment.py:72-73, stats.get("mean", 0.0).
MeanOr0(stats) == IF stats.mean = Nothing THEN Rat(0, 1) ELSE stats.mean[1]

\* experiment.py:69, baseline.summary.get(scorer_name, {}).
StatsOf(sm, scorer_name) ==
    IF scorer_name \in DOMAIN sm THEN sm[scorer_name] ELSE NoStats

\* experiment.py:80, delta > 0.
Improved(delta) == Less(Rat(0, 1), delta)

\* experiment.py:72-81.
ComparisonEntry(baseline_stats, candidate_stats) ==
    LET base_mean == MeanOr0(baseline_stats)
        cand_mean == MeanOr0(candidate_stats)
        delta == Minus(cand_mean, base_mean)
    IN [baseline |-> base_mean, candidate |-> cand_mean, delta |-> delta,
        improved |-> Improved(delta)]

\* experiment.py:68, `for scorer_name in candidate.summary`.
ComparedNames(base, cand) == DOMAIN cand

\* experiment.py:12-83.
compare_experiments(base, cand) ==
    [scorer_name \in ComparedNames(base, cand) |->
        ComparisonEntry(StatsOf(base, scorer_name),
                        StatsOf(cand, scorer_name))]

\* The means a summary may hold: _compute_summary's mean of a scorer's
\* values is a float, nan when one of the values is.
Means == {Rat(0, 1), Rat(1, 2), Rat(1, 1), NaN}

SummaryNames == {"A", "B"}

\* The summaries of an ExperimentResult (types.py:75, a dict).
Summaries ==
    UNION {[names -> {[mean |-> Some(mean)] : mean \in Means}
                     \cup {NoStats}] : names \in SUBSET SummaryNames}

InitCompare ==
    /\ pc = "idle"
    /\ dataKind = "list"
    /\ data = <<>>
    /\ scorers = Nothing
    /\ hasTask = FALSE
    /\ test_cases = <<>>
    /\ i = 0
    /\ j = 0
    /\ error = None
    /\ scores = EmptyDict
    /\ results = <<>>
    /\ total_cost = 0
    /\ summary = EmptyDict
    /\ raised = None
    /\ calls = <<>>
    /\ NoScorerCall
    /\ baseline \in Summaries
    /\ candidate \in Summaries
    /\ comparison = Nothing
    /\ NoDataset
    /\ NoTracker
    /\ NoTracing

\* experiment.py:12-83: the call returns the comparison; the function
\* assigns to nothing of its arguments.
Compare ==
    /\ comparison = Nothing
    /\ pc = "idle"
    /\ outcome.status = "none"
    /\ comparison' = Some(compare_experiments(baseline, candidate))
    /\ UNCHANGED <<baseline, candidate>>
    /\ UNCHANGED evalVars
    /\ UNCHANGED scorerVars
    /\ UNCHANGED datasetVars
    /\ UNCHANGED trackerVars
    /\ UNCHANGED traceVars

NextCompare == Compare

SpecCompare == InitCompare /\ [][NextCompare]_vars

\* ================================================================ Dataset
\* Eval is not running.
NoEval ==
    /\ pc = "idle"
    /\ dataKind = "list"
    /\ data = <<>>
    /\ scorers = Nothing
    /\ hasTask = FALSE
    /\ test_cases = <<>>
    /\ i = 0
    /\ j = 0
    /\ error = None
    /\ scores = EmptyDict
    /\ results = <<>>
    /\ total_cost = 0
    /\ summary = EmptyDict
    /\ raised = None
    /\ calls = <<>>

\* The mappings a caller adds to a Dataset: item.get("input"),
\* item.get("expected_output") (None for a key that is missing) and
\* item.get("tags", []).  Two items with the same input and
\* expected_output may differ in their tags.
DatasetItems ==
    [input : {"q1", "q2"}, expected_output : {None, "e"},
     tags : {<<>>, <<"t">>}]

\* A variant of SamePair that compares the input alone.
SameInput(existing, item) == existing.input = item.input

\* dataset.py:56-59, the test of the loop of Dataset.add.
SamePair(existing, item) ==
    /\ existing.input = item.input
    /\ existing.expected_output = item.expected_output

\* Dataset.add, dataset.py:44-61: _items after add(item).
Dataset_add(its, item) ==
    IF \E k \in DOMAIN its : SamePair(its[k], item)
    THEN its
    ELSE Append(its, item)

RECURSIVE AddAll(_, _)
\* `for item in ...: result.add(item)` (dataset.py:99-100, 125-126,
\* 167-172, 190-191): _items after the items of seq are added in order.
AddAll(its, seq) ==
    IF seq = <<>> THEN its
    ELSE AddAll(Dataset_add(its, Head(seq)), Tail(seq))

\* dataset.py:167-172: the items filter hands to result.add, in order.
\* The tags of an item of DatasetItems are a list.
Matching(its, tags) ==
    SelectSeq(its, LAMBDA item :
        \A k \in DOMAIN tags : \E m \in DOMAIN item.tags :
            item.tags[m] = tags[k])

\* Dataset.filter, dataset.py:141-174: what result.add is called with;
\* nothing for tags that are None or empty.
FilterAdds(its, tags) ==
    IF tags = Nothing \/ tags[1] = <<>> THEN <<>>
    ELSE Matching(its, tags[1])

\* random.sample(self._items, k), dataset.py:189: k items at distinct
\* places, in any order.
Samples(its, k) ==
    {[m \in 1..k |-> its[f[m]]] :
        f \in {g \in [1..k -> DOMAIN its] :
                  \A a, b \in 1..k : a # b => g[a] # g[b]}}

Min(a, b) == IF a < b THEN a ELSE b

\* A Dataset is created empty (dataset.py:34-42); from_csv and from_json
\* create one and call add for every row or element of the file
\* (dataset.py:96-101, 123-127), which is a sequence of DatasetAdd steps.
InitDataset ==
    /\ NoEval
    /\ NoScorerCall
    /\ NoComparison
    /\ NoDataset
    /\ NoTracker
    /\ NoTracing

\* dataset.add(item), by the caller or by from_csv / from_json.
DatasetAddItem(item) ==
    /\ made = "none"
    /\ Len(added) < MaxAdds
    /\ ds_items' = Dataset_add(ds_items, item)
    /\ added' = Append(added, item)
    /\ UNCHANGED <<result_items, result_added, made>>
    /\ UNCHANGED evalVars
    /\ UNCHANGED scorerVars
    /\ UNCHANGED compareVars
    /\ UNCHANGED trackerVars
    /\ UNCHANGED traceVars

\* dataset.filter(tags).
DatasetFilter(tags) ==
    /\ made = "none"
    /\ result_added' = FilterAdds(ds_items, tags)
    /\ result_items' = AddAll(<<>>, result_added')
    /\ made' = "filter"
    /\ UNCHANGED <<ds_items, added>>
    /\ UNCHANGED evalVars
    /\ UNCHANGED scorerVars
    /\ UNCHANGED compareVars
    /\ UNCHANGED trackerVars
    /\ UNCHANGED traceVars

\* dataset.sample(n), for n >= 0.
DatasetSample(n) ==
    /\ made = "none"
    /\ result_added' \in Samples(ds_items, Min(n, Len(ds_items)))
    /\ result_items' = AddAll(<<>>, result_added')
    /\ made' = "sample"
    /\ UNCHANGED <<ds_items, added>>
    /\ UNCHANGED evalVars
    /\ UNCHANGED scorerVars
    /\ UNCHANGED compareVars
    /\ UNCHANGED trackerVars
    /\ UNCHANGED traceVars

NextDataset ==
    \/ \E item \in DatasetItems : DatasetAddItem(item)
    \/ \E tags \in {Nothing, Some(<<>>), Some(<<"t">>)} : DatasetFilter(tags)
    \/ \E n \in 0..MaxAdds : DatasetSample(n)

SpecDataset == InitDataset /\ [][NextDataset]_vars

\* ============================================================ CostTracker
\* The costs of cost.py are floats, and a sum of floats is rounded after
\* every addition.  Here a cost is a whole number of units of 10^-8 USD
\* and a float keeps FloatBits significant bits (a double keeps 53): the
\* sums that round are sums of a few small costs.
FloatBits == 4

RECURSIVE Pow2(_)
Pow2(e) == IF e = 0 THEN 1 ELSE 2 * Pow2(e - 1)

RECURSIVE ExponentFrom(_, _)
\* The least e from e0 on with x < 2^(FloatBits + e).
ExponentFrom(x, e0) ==
    IF x < Pow2(FloatBits + e0) THEN e0 ELSE ExponentFrom(x, e0 + 1)

\* The float nearest to x >= 0, ties to the even mantissa.
RoundToFloat(x) ==
    LET e == ExponentFrom(x, 0)
        q == x \div Pow2(e)
        r == x % Pow2(e)
    IN IF e = 0 THEN x
       ELSE IF 2 * r > Pow2(e) \/ (2 * r = Pow2(e) /\ q % 2 = 1)
       THEN (q + 1) * Pow2(e)
       ELSE q * Pow2(e)

\* x + y of two floats.
FloatAdd(x, y) == RoundToFloat(x + y)

\* calculate_cost, cost.py:79-102, as the float it returns.
FloatCost(model, prompt_tokens, completion_tokens) ==
    IF model \notin DOMAIN MODEL_PRICING THEN 0
    ELSE FloatAdd(RoundToFloat(prompt_tokens * MODEL_PRICING[model].input),
                  RoundToFloat(completion_tokens
                               * MODEL_PRICING[model].output))

\* cost.py:106-122.
CostEntry(model, prompt_tokens, completion_tokens, cost, label) ==
    [model |-> model, prompt_tokens |-> prompt_tokens,
     completion_tokens |-> completion_tokens, cost |-> cost, label |-> label]

\* CostTracker.add, cost.py:146-171: _entries after the call.
CostTracker_add(es, c) ==
    Append(es, CostEntry(c.model, c.prompt_tokens, c.completion_tokens,
                         FloatCost(c.model, c.prompt_tokens,
                                   c.completion_tokens),
                         c.label))

RECURSIVE total_cost_of(_)
\* CostTracker.total_cost, cost.py:173-176: sum() adds from the left.
total_cost_of(es) ==
    IF es = <<>> THEN 0
    ELSE FloatAdd(total_cost_of(SubSeq(es, 1, Len(es) - 1)),
                  es[Len(es)].cost)

RECURSIVE total_tokens_of(_)
\* CostTracker.total_tokens, cost.py:178-183.
total_tokens_of(es) ==
    IF es = <<>> THEN 0
    ELSE total_tokens_of(SubSeq(es, 1, Len(es) - 1))
         + (es[Len(es)].prompt_tokens + es[Len(es)].completion_tokens)

\* CostTracker.breakdown, cost.py:185-203.
breakdown(es) ==
    [k \in DOMAIN es |->
        [model |-> es[k].model,
         prompt_tokens |-> es[k].prompt_tokens,
         completion_tokens |-> es[k].completion_tokens,
         total_tokens |-> es[k].prompt_tokens + es[k].completion_tokens,
         cost_usd |-> es[k].cost,
         label |-> es[k].label]]

\* A variant of LabelOf that keeps an empty label.
LabelOfNotNone(entry) ==
    IF entry.label = None THEN "default" ELSE entry.label

\* cost.py:234, entry.label or "default".
LabelOf(entry) ==
    IF Truthy(entry.label) THEN entry.label ELSE "default"

\* cost.py:236-242.
NoLabelStats ==
    [prompt_tokens |-> 0, completion_tokens |-> 0, total_tokens |-> 0,
     cost_usd |-> 0]

\* cost.py:244-249.
AddToLabel(stats, entry) ==
    [prompt_tokens |-> stats.prompt_tokens + entry.prompt_tokens,
     completion_tokens |-> stats.completion_tokens + entry.completion_tokens,
     total_tokens |-> stats.total_tokens
                      + (entry.prompt_tokens + entry.completion_tokens),
     cost_usd |-> FloatAdd(stats.cost_usd, entry.cost)]

RECURSIVE breakdown_by_label(_)
\* CostTracker.breakdown_by_label, cost.py:205-251.
breakdown_by_label(es) ==
    IF es = <<>> THEN EmptyDict
    ELSE LET result == breakdown_by_label(SubSeq(es, 1, Len(es) - 1))
             entry == es[Len(es)]
             label == LabelOf(entry)
         IN DictSet(result, label,
                    AddToLabel(IF label \in DOMAIN result THEN result[label]
                               ELSE NoLabelStats,
                               entry))

\* The arguments of a call of add: a model of the price table or one that
\* is not in it, token counts, and a label, the empty one or none.
TrackerCalls ==
    {[model |-> model, prompt_tokens |-> tokens[1],
      completion_tokens |-> tokens[2], label |-> label] :
        model \in {"gpt-4o-mini", "my-model"},
        tokens \in {<<1, 0>>, <<1, 1>>, <<2, 0>>},
        label \in {None, "", "A"}}

\* CostTracker.__init__, cost.py:142-144.
InitTracker ==
    /\ NoEval
    /\ NoScorerCall
    /\ NoComparison
    /\ NoDataset
    /\ NoTracker
    /\ NoTracing

\* tracker.add(model, prompt_tokens, completion_tokens, label).
TrackerAdd(c) ==
    /\ Len(tracked) < MaxTracked
    /\ cost_entries' = CostTracker_add(cost_entries, c)
    /\ tracked' = Append(tracked, c)
    /\ UNCHANGED evalVars
    /\ UNCHANGED scorerVars
    /\ UNCHANGED compareVars
    /\ UNCHANGED datasetVars
    /\ UNCHANGED traceVars

NextTracker == \E c \in TrackerCalls : TrackerAdd(c)

SpecTracker == InitTracker /\ [][NextTracker]_vars

\* ================================================================ tracing
\* What a traced function may raise: an Exception with a message, or an
\* exception that is no Exception (KeyboardInterrupt, SystemExit).
Exceptions ==
    {[cls |-> "ValueError", is_exception |-> TRUE, message |-> "oops"],
     [cls |-> "KeyboardInterrupt", is_exception |-> FALSE, message |-> ""]}

\* What a traced function may return.
ReturnValues == {"value"}

\* The names of the traced functions.
TracedNames == {"inner", "outer"}

\* tracing.py:90-96, the Span of a call; call is the number of the call
\* and thread the thread that records it (history, no fields of Span).
Span(name, output, err, call, thread) ==
    [name |-> name, output |-> output, error |-> err, call |-> call,
     thread |-> thread]

\* get_current_traces, tracing.py:22-26, as thread t reads it.
get_current_traces(t) ==
    IF storage[t] = Nothing THEN <<>> ELSE storage[t][1]

\* tracing.py:79, 85-86: error stays None unless `except Exception`
\* catches what the function raised.
ErrorOf(exc) == IF exc.is_exception THEN Some(exc.message) ELSE Nothing

\* The innermost traced call thread t is inside.
Top(t) == stack[t][Len(stack[t])]

\* The stack of a thread whose innermost call has ended; if the call
\* raised, the exception reaches the body of the call around it.
Popped(t, pending) ==
    LET rest == SubSeq(stack[t], 1, Len(stack[t]) - 1)
    IN IF rest = <<>> THEN rest
       ELSE [rest EXCEPT ![Len(rest)].pending = pending]

InitTrace ==
    /\ NoEval
    /\ NoScorerCall
    /\ NoComparison
    /\ NoDataset
    /\ NoTracker
    /\ NoTracing

\* tracing.py:67-83: thread t calls the traced function name, from its top
\* level or from the body of the traced call it is inside.
TraceCall(t, name) ==
    /\ started < MaxTraced
    /\ Len(stack[t]) < MaxDepth
    /\ stack[t] # <<>> => Top(t).pending = Nothing
    /\ started' = started + 1
    /\ stack' = [stack EXCEPT ![t] =
                    Append(@, [call |-> started + 1, name |-> name,
                               pending |-> Nothing])]
    /\ UNCHANGED <<storage, invoked>>
    /\ UNCHANGED evalVars
    /\ UNCHANGED scorerVars
    /\ UNCHANGED compareVars
    /\ UNCHANGED datasetVars
    /\ UNCHANGED trackerVars

\* tracing.py:83-84, 88-97: the function returns v (having caught what an
\* inner call raised, if one did); the span is appended and v returned.
TraceReturn(t, v) ==
    /\ stack[t] # <<>>
    /\ storage' = [storage EXCEPT ![t] =
                      Some(Append(get_current_traces(t),
                                  Span(Top(t).name, Some(v), Nothing,
                                       Top(t).call, t)))]
    /\ invoked' = Append(invoked,
                         [thread |-> t, call |-> Top(t).call,
                          name |-> Top(t).name, did |-> "returned",
                          value |-> Some(v), exc |-> Nothing])
    /\ stack' = [stack EXCEPT ![t] = Popped(t, Nothing)]
    /\ UNCHANGED started
    /\ UNCHANGED evalVars
    /\ UNCHANGED scorerVars
    /\ UNCHANGED compareVars
    /\ UNCHANGED datasetVars
    /\ UNCHANGED trackerVars

\* tracing.py:83, 85-97: the function raises exc (its own, or what an
\* inner call raised); the span is appended and exc goes on to the caller.
TraceRaise(t, exc) ==
    /\ stack[t] # <<>>
    /\ Top(t).pending # Nothing => exc = Top(t).pending[1]
    /\ storage' = [storage EXCEPT ![t] =
                      Some(Append(get_current_traces(t),
                                  Span(Top(t).name, Nothing, ErrorOf(exc),
                                       Top(t).call, t)))]
    /\ invoked' = Append(invoked,
                         [thread |-> t, call |-> Top(t).call,
                          name |-> Top(t).name, did |-> "raised",
                          value |-> Nothing, exc |-> Some(exc)])
    /\ stack' = [stack EXCEPT ![t] = Popped(t, Some(exc))]
    /\ UNCHANGED started
    /\ UNCHANGED evalVars
    /\ UNCHANGED scorerVars
    /\ UNCHANGED compareVars
    /\ UNCHANGED datasetVars
    /\ UNCHANGED trackerVars

\* tracing.py:22-26: thread t calls get_current_traces for the first time.
GetCurrentTraces(t) ==
    /\ storage[t] = Nothing
    /\ storage' = [storage EXCEPT ![t] = Some(<<>>)]
    /\ UNCHANGED <<stack, invoked, started>>
    /\ UNCHANGED evalVars
    /\ UNCHANGED scorerVars
    /\ UNCHANGED compareVars
    /\ UNCHANGED datasetVars
    /\ UNCHANGED trackerVars

NextTrace ==
    \/ \E t \in Threads, name \in TracedNames : TraceCall(t, name)
    \/ \E t \in Threads, v \in ReturnValues : TraceReturn(t, v)
    \/ \E t \in Threads, exc \in Exceptions : TraceRaise(t, exc)
    \/ \E t \in Threads : GetCurrentTraces(t)

SpecTrace == InitTrace /\ [][NextTrace]_vars

\* ===================================================== properties of Eval
\* The run is over: Eval returned or raised.
Ended == pc \in {"returned", "raised"}

\* The task was called on item k and raised.
TaskRaisedOn(k) ==
    \E c \in DOMAIN calls :
        calls[c].fn = "task" /\ calls[c].item = k /\ ~calls[c].ok

\* Some scorer call raised.
SomeScorerRaised ==
    \E c \in DOMAIN calls : calls[c].fn = "scorer" /\ ~calls[c].ok

\* The names of the supplied scorers.
ScorerNames == {TheScorers[k].name : k \in DOMAIN TheScorers}

\* results holds one EvalResult per item of data, in the order of data.
ResultsFollowData ==
    /\ Len(results) = Len(data)
    /\ \A k \in DOMAIN results : results[k].input = data[k].input

\* C1 as stated, read of the runs in which no scorer raises: once the task
\* has raised on some item, Eval still returns; the ExperimentResult holds
\* one EvalResult per item in input order, the item the task raised on has
\* its error set and no scores, and every item the task did not raise on
\* holds one ScoreResult from every supplied scorer (as many ScoreResults
\* as scorers).
C1_AsStated ==
    (Ended /\ ~SomeScorerRaised /\ \E k \in DOMAIN data : TaskRaisedOn(k)) =>
        /\ pc = "returned"
        /\ ResultsFollowData
        /\ \A k \in DOMAIN results :
              IF TaskRaisedOn(k)
              THEN results[k].error # None /\ DOMAIN results[k].scores = {}
              ELSE Cardinality(DOMAIN results[k].scores) = Len(TheScorers)

\* C1, amended: once the task has raised on some item, Eval still returns
\* unless a scorer raises; the ExperimentResult holds one EvalResult per
\* item in input order, the item the task raised on has its error set and
\* no scores, and every item the task did not raise on has no error and
\* holds one ScoreResult under the name of every supplied scorer (one per
\* distinct name).
C1_FailureIsolation ==
    (Ended /\ \E k \in DOMAIN data : TaskRaisedOn(k)) =>
        /\ pc = "raised" => SomeScorerRaised
        /\ pc = "returned" =>
              /\ ResultsFollowData
              /\ \A k \in DOMAIN results :
                    IF TaskRaisedOn(k)
                    THEN /\ results[k].error # None
                         /\ DOMAIN results[k].scores = {}
                    ELSE /\ results[k].error = None
                         /\ DOMAIN results[k].scores = ScorerNames

\* The task raised on the first of two items and not on the second, two
\* scorers were supplied, and Eval returned.
C1_Witness ==
    /\ pc = "returned"
    /\ Len(data) = 2
    /\ Len(TheScorers) = 2
    /\ TaskRaisedOn(1)
    /\ ~TaskRaisedOn(2)
    /\ results[2].error = None

\* C2: at every moment of a run and in the returned ExperimentResult, an
\* EvalResult whose error is set (an empty message included) has no scores,
\* the item being processed has no scores once its task has failed, and no
\* scorer is ever called on an item whose task raised.
C2_ErrorMeansNoScores ==
    /\ \A k \in DOMAIN results :
          results[k].error # None => DOMAIN results[k].scores = {}
    /\ (pc \in {"score", "append"} /\ error # None) => DOMAIN scores = {}
    /\ \A c \in DOMAIN calls :
          calls[c].fn = "scorer" => ~TaskRaisedOn(calls[c].item)

\* Eval returned a result whose error is the empty string, next to a
\* result that was scored.
C2_Witness ==
    /\ pc = "returned"
    /\ \E k \in DOMAIN results : results[k].error = ""
    /\ \E k \in DOMAIN results : DOMAIN results[k].scores # {}

\* C3: Eval called with an empty list or Dataset, or with scorers None or
\* empty, raises ValueError and has called neither the task nor a scorer.
C3_EmptyInputsRejected ==
    (/\ pc # "setup"
     /\ \/ dataKind \in {"list", "Dataset"} /\ data = <<>>
        \/ scorers = Nothing
        \/ scorers = Some(<<>>)) =>
        /\ pc = "raised"
        /\ raised = "ValueError"
        /\ calls = <<>>
        /\ results = <<>>

\* Eval was called with an empty Dataset and scorers, and raised.
C3_Witness ==
    /\ pc = "raised"
    /\ dataKind = "Dataset"
    /\ data = <<>>
    /\ scorers # Nothing
    /\ scorers # Some(<<>>)

\* C4: once a scorer has raised, Eval has raised that exception, nothing
\* is returned (no summary, no ExperimentResult), and the failed call is
\* the last call of the run: neither the task nor a scorer is called
\* afterwards; and an ExperimentResult that is returned holds a result for
\* every item.
C4_ScorerErrorsPropagate ==
    /\ \A c \in DOMAIN calls :
          (calls[c].fn = "scorer" /\ ~calls[c].ok) =>
              /\ pc = "raised"
              /\ raised = "ScorerError"
              /\ DOMAIN summary = {}
              /\ c = Len(calls)
    /\ pc = "returned" => Len(results) = Len(data)

\* A scorer raised on the first of two items, after the first item's task
\* call had returned.
C4_Witness ==
    /\ pc = "raised"
    /\ raised = "ScorerError"
    /\ Len(data) = 2
    /\ hasTask
    /\ calls[Len(calls)].item = 1

\* The error-free results that hold a ScoreResult under name.
ScoredItems(name) ==
    {k \in DOMAIN results :
        results[k].error = None /\ name \in DOMAIN results[k].scores}

\* The value item k holds under name.
ValueOf(k, name) == results[k].scores[name].value

RECURSIVE SumOver(_, _)
\* The sum of the values the items of S hold under name.
SumOver(S, name) ==
    IF S = {} THEN 0
    ELSE LET k == CHOOSE x \in S : TRUE
         IN ValueOf(k, name) + SumOver(S \ {k}, name)

\* The threshold the summary of name is computed with: that of the last
\* supplied scorer of that name, 0.0 if it has no threshold attribute.
SummaryThreshold(name) ==
    LET last == CHOOSE k \in DOMAIN TheScorers :
                    /\ TheScorers[k].name = name
                    /\ \A m \in DOMAIN TheScorers :
                          TheScorers[m].name = name => m <= k
    IN IF TheScorers[last].threshold = Nothing THEN 0
       ELSE TheScorers[last].threshold[1]

\* C7: every entry of the returned summary holds the mean, the minimum and
\* the maximum of the values the error-free items hold under that name, and
\* as pass_rate the share of these values that reach the scorer's threshold
\* (0.0 if it has none); with several scorers of one name, the last one's.
C7_SummaryStatistics ==
    pc = "returned" =>
        \A name \in DOMAIN summary :
            LET S == ScoredItems(name)
                n == Cardinality(S)
                passing == {k \in S : ValueOf(k, name) >= SummaryThreshold(name)}
                e == summary[name]
            IN /\ n > 0
               /\ e.mean[1] * n = SumOver(S, name) * e.mean[2]
               /\ e.mean[2] > 0
               /\ \E k \in S : e.min = ValueOf(k, name)
               /\ \A k \in S : e.min <= ValueOf(k, name)
               /\ \E k \in S : e.max = ValueOf(k, name)
               /\ \A k \in S : e.max >= ValueOf(k, name)
               /\ e.pass_rate[1] * n = Cardinality(passing) * e.pass_rate[2]
               /\ e.pass_rate[2] > 0

\* Eval returned a summary over two scored items of different values, one
\* of them exactly at the scorer's threshold, while the task failed on no
\* item.
C7_Witness ==
    /\ pc = "returned"
    /\ \E name \in DOMAIN summary :
          /\ summary[name].min < summary[name].max
          /\ Cardinality(ScoredItems(name)) = 2
          /\ \E k \in ScoredItems(name) :
                ValueOf(k, name) = SummaryThreshold(name)

\* C8: in the returned summary a supplied scorer under whose name no
\* error-free item holds a ScoreResult has no entry, every key is the name
\* of a supplied scorer with at least one scored item, and computing the
\* summary never divides by zero.
C8_UnscoredScorersOmitted ==
    /\ raised # "ZeroDivisionError"
    /\ pc = "returned" =>
          /\ \A k \in DOMAIN TheScorers :
                ScoredItems(TheScorers[k].name) = {} =>
                    TheScorers[k].name \notin DOMAIN summary
          /\ \A name \in DOMAIN summary :
                /\ name \in ScorerNames
                /\ ScoredItems(name) # {}
                /\ summary[name].mean[2] # 0
                /\ summary[name].pass_rate[2] # 0

\* Eval returned after the task had raised on every one of two items: the
\* summary is empty.
C8_Witness ==
    /\ pc = "returned"
    /\ Len(data) = 2
    /\ \A k \in DOMAIN data : TaskRaisedOn(k)
    /\ DOMAIN summary = {}

\* The place of a call in the order of a sequential run: item first, then
\* the task (0) before the scorers in the order supplied.
CallRank(c) == c.item * (MaxScorers + 1) + c.scorer

\* C9: the calls of a run happen one at a time in input order: on each
\* item the task call (if a task is supplied) comes before every scorer
\* call, the scorers are called in the order supplied, all calls on one item
\* come before the task call on the next, and results[k] is the result of
\* the k-th item of data.
C9_SequentialInOrder ==
    /\ \A a, b \in DOMAIN calls :
          a < b => CallRank(calls[a]) < CallRank(calls[b])
    /\ \A c \in DOMAIN calls :
          (calls[c].fn = "scorer" /\ hasTask) =>
              \E t \in 1..(c - 1) :
                  /\ calls[t].fn = "task"
                  /\ calls[t].item = calls[c].item
                  /\ calls[t].ok
    /\ \A c \in DOMAIN calls :
          (calls[c].fn = "scorer" /\ calls[c].scorer > 1) =>
              /\ c > 1
              /\ calls[c - 1].fn = "scorer"
              /\ calls[c - 1].item = calls[c].item
              /\ calls[c - 1].scorer = calls[c].scorer - 1
    /\ Len(results) <= Len(test_cases)
    /\ \A k \in DOMAIN results :
          /\ results[k].input = data[k].input
          /\ results[k].test_case_id = test_cases[k].id
    /\ \A c \in DOMAIN calls : calls[c].item <= Len(results) + 1

\* Eval returned after calling the task and two scorers on each of two
\* items.
C9_Witness ==
    /\ pc = "returned"
    /\ hasTask
    /\ Len(calls) = 6

\* Whether data is something Eval must reject: it holds an item that is
\* neither a mapping nor a TestCase, or is itself neither a list nor a
\* Dataset.
UnsupportedData ==
    \/ \E k \in DOMAIN data : data[k].kind = "other"
    \/ dataKind = "other"

\* C10 as stated: a run on data holding an item that is neither a mapping
\* nor a TestCase (in a list or in a Dataset), or on data that is neither a
\* list nor a Dataset, ends with ValueError, before the task or a scorer is
\* called.
C10_AsStated ==
    (Ended /\ UnsupportedData) => (raised = "ValueError" /\ calls = <<>>)

\* ================================================= properties of scorers
\* x lies in the closed interval [0.0, 1.0].
InUnit(x) == Geq(x, Rat(0, 1)) /\ Geq(Rat(1, 1), x)

\* C5, as the specification states it: every ScoreResult a built-in scorer
\* returns has its value in [0.0, 1.0], whatever the test case and whatever
\* the client answers, for SimilarityScorer whatever pair of embedding
\* vectors it is given.  SimilarityScorer returns the cosine as computed,
\* which is negative for vectors with a negative dot product and NaN for a
\* zero vector.
C5_AsStated ==
    (self \in BuiltinScorers /\ outcome.status = "returned")
    => InUnit(outcome.result[1].value)

\* The reason of the returned result ends with the slice content[:200].
ReasonHoldsPrefix(result, content) ==
    /\ result.reason # Nothing
    /\ \E k \in 1..(Len(result.reason[1]) + 1) :
          SubSeq(result.reason[1], k, Len(result.reason[1]))
             = Prefix(content, JudgePrefixLen)

\* C6, as the specification states it: with a non-empty actual_output
\* LLMJudgeScorer.score never raises, whatever text the judge replies with,
\* and returns a value in [0.0, 1.0]; when neither the JSON parse nor the
\* pattern search yields a score, the value is 0.0 and the reason holds the
\* truncated reply.  A reply that is JSON but no object makes parsed.get
\* raise AttributeError, and a reason that is no string makes the
\* construction of the ScoreResult raise.
C6_AsStated ==
    (/\ self # <<>>
     /\ self.kind = "LLMJudge"
     /\ outcome.status # "pending"
     /\ Truthy(test_case.actual_output))
    => /\ outcome.status = "returned"
       /\ InUnit(outcome.result[1].value)
       /\ LLMJudge_parse_response(reply[1].content).how = "failed"
          => /\ outcome.result[1].value = Rat(0, 1)
             /\ ReasonHoldsPrefix(outcome.result[1], reply[1].content)

\* The call of score has ended, on a scorer of the kind.
Ran(kind) == self.kind = kind /\ outcome.status # "pending"

\* The value of the ScoreResult score returned.
Value == outcome.result[1].value

\* actual_output is None or the empty string.
EmptyOutput == test_case.actual_output \in {Nothing, Some(<<>>)}

\* C11, as the specification states it: ExactMatchScorer.score returns 0.0
\* and does not raise whenever actual_output is None or empty and
\* expected_output is not None, an empty expected_output included.  The
\* code sets the empty string apart from None only: an empty actual_output
\* is compared like any other text and equals an empty expected_output.
C11_AsStated ==
    (Ran("ExactMatch") /\ test_case.expected_output # Nothing /\ EmptyOutput)
    => outcome.status = "returned" /\ Value = Rat(0, 1)

\* The two texts are equal letter by letter, a capital letter being equal
\* to its small letter.
EqualIgnoringCase(s, t) ==
    /\ Len(s) = Len(t)
    /\ \A k \in 1..Len(s) : s[k] = t[k] \/ {s[k], t[k]} = {"a", "A"}

\* The two outputs of the test case are equal in the scorer's sense.
OutputsEqual ==
    IF self.case_sensitive
    THEN test_case.actual_output[1] = test_case.expected_output[1]
    ELSE EqualIgnoringCase(test_case.actual_output[1],
                           test_case.expected_output[1])

\* C12: with a non-empty actual_output and an expected_output that is not
\* None, ExactMatchScorer returns 1.0 if the two texts are equal (equal
\* whatever the case of their letters when case_sensitive is False) and 0.0
\* if not; with expected_output None it raises ValueError, whatever
\* actual_output is.
C12_ExactMatchValue ==
    Ran("ExactMatch") =>
       /\ test_case.expected_output = Nothing
          => outcome.status = "raised" /\ outcome.exc = "ValueError"
       /\ (test_case.expected_output # Nothing /\ ~EmptyOutput)
          => /\ outcome.status = "returned"
             /\ Value = IF OutputsEqual THEN Rat(1, 1) ELSE Rat(0, 1)

\* A scorer that is not case sensitive has returned 1.0 for two texts that
\* differ in the case of a letter.
C12_Witness ==
    /\ Ran("ExactMatch")
    /\ ~self.case_sensitive
    /\ test_case.expected_output # Nothing
    /\ ~EmptyOutput
    /\ test_case.actual_output # test_case.expected_output
    /\ outcome.status = "returned"
    /\ Value = Rat(1, 1)

\* The output text the formula of the keywords is about: the empty text
\* for an output that is None.
OutputText ==
    IF test_case.actual_output = Nothing THEN <<>> ELSE test_case.actual_output[1]

\* The places of the keyword list whose keyword, in small letters, stands
\* in the output text in small letters.
KeywordsPresent ==
    {k \in DOMAIN self.keywords :
        Contains(Lower(OutputText), Lower(self.keywords[k]))}

\* C13, as the specification states it: for every list of keywords K,
\* repeated and empty keywords included, and every output text T, empty or
\* None included, the value of ContainsAllScorer is the number of keywords
\* of K found in T, case apart, over the length of K, and 1.0 for an empty
\* K.  The empty keyword stands in every text, the empty one too, yet the
\* code returns 0.0 for an empty or missing output before it looks at the
\* keywords.
C13_AsStated ==
    Ran("ContainsAll") =>
       /\ outcome.status = "returned"
       /\ Value = IF self.keywords = <<>> THEN Rat(1, 1)
                  ELSE Rat(Cardinality(KeywordsPresent), Len(self.keywords))

\* ToolCorrectnessScorer has scored lists of tools: there are expected
\* tools, tools_called is a list, and the mode is the one named.
ToolsScored(check_order) ==
    /\ Ran("ToolCorrectness")
    /\ self.check_order = check_order
    /\ test_case.expected_tools # Nothing
    /\ test_case.tools_called # Nothing

ExpectedTools == test_case.expected_tools[1]
ToolsCalled == test_case.tools_called[1]

\* C14, as the specification states it: in unordered mode, for a non-empty
\* expected_tools, a list that repeats a tool included, the value is the
\* number of tools common to set(expected_tools) and set(tools_called),
\* over len(expected_tools).
C14_AsStated ==
    (ToolsScored(FALSE) /\ ExpectedTools # <<>>)
    => /\ outcome.status = "returned"
       /\ Value = Rat(Cardinality(Range(ExpectedTools) \cap Range(ToolsCalled)),
                      Len(ExpectedTools))

\* The number of times the tool stands in the list.
Occurrences(seq, tool) == Cardinality({k \in DOMAIN seq : seq[k] = tool})

RECURSIVE SumOccurrences(_, _)
\* The entries of the list that hold a tool of the set.
SumOccurrences(seq, S) ==
    IF S = {} THEN 0
    ELSE LET t == CHOOSE x \in S : TRUE
         IN Occurrences(seq, t) + SumOccurrences(seq, S \ {t})

\* The list holds no tool twice.
NoRepeats(seq) == Cardinality(Range(seq)) = Len(seq)

\* C14, amended: in unordered mode, for a non-empty expected_tools, the
\* value is the number of entries of expected_tools whose tool is among the
\* tools called (a tool expected twice counts twice), over
\* len(expected_tools); for an expected_tools without repeats this is the
\* number of tools common to the two sets over len(expected_tools).
C14_UnorderedValue ==
    (ToolsScored(FALSE) /\ ExpectedTools # <<>>)
    => /\ outcome.status = "returned"
       /\ Value = Rat(SumOccurrences(ExpectedTools,
                                     Range(ExpectedTools) \cap Range(ToolsCalled)),
                      Len(ExpectedTools))
       /\ NoRepeats(ExpectedTools)
          => Value = Rat(Cardinality(Range(ExpectedTools) \cap Range(ToolsCalled)),
                         Len(ExpectedTools))

\* The unordered scorer has scored an expected_tools that repeats a tool
\* that was called, and one of whose tools was not called.
C14_Witness ==
    /\ ToolsScored(FALSE)
    /\ ~NoRepeats(ExpectedTools)
    /\ Range(ExpectedTools) \cap Range(ToolsCalled) # {}
    /\ ~(Range(ExpectedTools) \subseteq Range(ToolsCalled))
    /\ outcome.status = "returned"
    /\ Value = Rat(2, 3)

\* The value the scorer gives the test case when the tools called are
\* those of the list instead.
ValueWith(called) ==
    ToolCorrectness_score(
        self, [test_case EXCEPT !.tools_called = Some(called)]).result[1].value

\* C15: in unordered mode the value depends on the set of the tools called
\* only: any list with the same set of tools, a permutation of
\* tools_called among them, gets the same value, and a list that holds
\* more tools besides never gets a lower one.
C15_DependsOnSetOnly ==
    ToolsScored(FALSE) =>
       \A other \in ToolListsUpTo(MaxTools) :
          /\ Range(other) = Range(ToolsCalled) => ValueWith(other) = Value
          /\ Range(ToolsCalled) \subseteq Range(other)
             => Geq(ValueWith(other), Value)

\* The unordered scorer has scored two different tools called in an order
\* that is not the expected one, and not every expected tool was called.
C15_Witness ==
    /\ ToolsScored(FALSE)
    /\ Len(ToolsCalled) = 2
    /\ Len(ExpectedTools) = 3
    /\ ToolsCalled[1] = ExpectedTools[2]
    /\ ToolsCalled[2] = ExpectedTools[1]
    /\ ToolsCalled[1] # ToolsCalled[2]
    /\ Value = Rat(2, 3)

\* The list e is a subsequence of the list a: its tools stand in a, in the
\* same order, at places that grow.
IsSubsequence(e, a) ==
    \E f \in [DOMAIN e -> DOMAIN a] :
       /\ \A k \in DOMAIN e : a[f[k]] = e[k]
       /\ \A k, l \in DOMAIN e : k < l => f[k] < f[l]

\* C16: in ordered mode, with a non-empty expected_tools, the scorer
\* returns 1.0 if and only if expected_tools is a subsequence of
\* tools_called, other tools in between allowed; so a tools_called with the
\* same set of tools in an order that breaks the expected one scores
\* strictly below 1.0.
C16_OrderedPerfectIffSubsequence ==
    (ToolsScored(TRUE) /\ ExpectedTools # <<>>)
    => /\ outcome.status = "returned"
       /\ Value = Rat(1, 1) <=> IsSubsequence(ExpectedTools, ToolsCalled)
       /\ (/\ Range(ToolsCalled) = Range(ExpectedTools)
           /\ ~IsSubsequence(ExpectedTools, ToolsCalled))
          => Less(Value, Rat(1, 1))

\* The ordered scorer has scored below 1.0 a tools_called that holds every
\* expected tool, in another order.
C16_Witness ==
    /\ ToolsScored(TRUE)
    /\ Len(ExpectedTools) = 3
    /\ Range(ToolsCalled) = Range(ExpectedTools)
    /\ NoRepeats(ExpectedTools)
    /\ ~IsSubsequence(ExpectedTools, ToolsCalled)
    /\ Less(Value, Rat(1, 1))

\* C17, as the specification states it: with an empty expected_tools the
\* scorer returns 1.0 in both modes, whether tools_called is a list or
\* None; with expected_tools None it raises.  The code returns 0.0 for a
\* tools_called that is None before it looks at expected_tools.
C17_AsStated ==
    Ran("ToolCorrectness") =>
       /\ test_case.expected_tools = Nothing => outcome.status = "raised"
       /\ test_case.expected_tools = Some(<<>>)
          => outcome.status = "returned" /\ Value = Rat(1, 1)

\* C18, as the specification states it: every ScoreResult a scorer with a
\* threshold returns, built-in or FunctionScorer, has passed equal to
\* (value >= threshold), whatever the threshold, zero, negative or above
\* 1.0 included, and on every return path.  The early returns write passed
\* down as False (True for an empty keyword list) whatever the threshold.
C18_AsStated ==
    outcome.status = "returned"
    => outcome.result[1].passed
          = Some(Geq(Value, outcome.result[1].threshold[1]))

\* ================================== properties of compare_experiments
\* The comparison the call returned.
Compared == comparison[1]

\* The mean of the scorer in the summary, 0.0 for a mean that is missing.
MeanIn(sm, name) ==
    IF name \in DOMAIN sm /\ sm[name].mean # Nothing THEN sm[name].mean[1]
    ELSE Rat(0, 1)

\* d is the float c - b.
IsDifference(d, c, b) ==
    IF IsNaN(c) \/ IsNaN(b) THEN IsNaN(d)
    ELSE /\ ~IsNaN(d)
         /\ d[1] * c[2] * b[2] = (c[1] * b[2] - b[1] * c[2]) * d[2]

\* The returned comparison has exactly one entry per scorer name of the
\* candidate's summary; each entry's delta is the candidate's mean minus
\* the baseline's, a missing mean taken as 0.0, and improved is true
\* exactly when the delta is above 0.
ComparisonIsRight ==
    comparison # Nothing
    => /\ DOMAIN Compared = DOMAIN candidate
       /\ \A name \in DOMAIN Compared :
            /\ IsDifference(Compared[name].delta, MeanIn(candidate, name),
                            MeanIn(baseline, name))
            /\ Compared[name].improved
                 <=> (~IsNaN(Compared[name].delta)
                      /\ Compared[name].delta[1] > 0)

\* A result compared with itself: delta 0 and improved false for every
\* scorer.
SelfComparisonIsZero ==
    (comparison # Nothing /\ baseline = candidate)
    => \A name \in DOMAIN Compared :
         Compared[name].delta = Rat(0, 1) /\ ~Compared[name].improved

\* C19, as the specification states it: compare_experiments returns exactly
\* one entry per scorer name of candidate.summary, each with delta =
\* candidate mean - baseline mean (a missing baseline mean is 0.0) and
\* improved true iff delta > 0, so that a result compared with itself has
\* delta 0 and improved false for every scorer; neither input is modified.
C19_AsStated ==
    /\ [](ComparisonIsRight /\ SelfComparisonIsZero)
    /\ [][baseline' = baseline /\ candidate' = candidate]_vars

\* What holds of every pair of summaries, a nan mean included: all of the
\* above but the delta of 0 of a result compared with itself.
CompareButSelfDelta ==
    /\ [](ComparisonIsRight
          /\ ((comparison # Nothing /\ baseline = candidate)
              => \A name \in DOMAIN Compared : ~Compared[name].improved))
    /\ [][baseline' = baseline /\ candidate' = candidate]_vars

\* ======================================== properties of the running cost
RECURSIVE SumOfCosts(_)
\* The sum of cost_usd over the ScoreResults the logged scorer calls
\* returned; a ScoreResult without cost_usd counts 0.
SumOfCosts(cs) ==
    IF cs = <<>> THEN 0
    ELSE (IF Head(cs).cost = Nothing THEN 0 ELSE Head(cs).cost[1])
         + SumOfCosts(Tail(cs))

\* C20: the total cost, which the ExperimentResult reports as
\* total_cost_usd, is at every moment of the run the sum of cost_usd over
\* the ScoreResults every scorer invocation so far returned (none counts
\* 0); no scorer is invoked on an item whose task raised, so such an item
\* adds nothing; and the running total never decreases.
C20_TotalCostIsSum ==
    /\ [](/\ total_cost = SumOfCosts(calls)
          /\ \A c \in DOMAIN calls :
                TaskRaisedOn(calls[c].item) => calls[c].cost = Nothing)
    /\ [][total_cost' >= total_cost]_vars

\* Eval returned a total of two costs, from a run in which the task raised
\* on an item.
C20_Witness ==
    /\ pc = "returned"
    /\ total_cost = 2
    /\ \E k \in 1..Len(test_cases) : TaskRaisedOn(k)

\* ====================================== properties of FaithfulnessScorer
\* FaithfulnessScorer.score was called with a context and a non-empty
\* actual_output, and has ended.
FaithfulnessJudged ==
    /\ self # <<>>
    /\ Ran("Faithfulness")
    /\ test_case.context # Nothing
    /\ Truthy(test_case.actual_output)

\* The reply text is, as it stands, a JSON object.
IsJsonObject(content) ==
    json_loads(content).ok /\ json_loads(content).val.t = "dict"

\* The reason of the result starts with the words of the parse failure.
ReasonExplainsFailure(result) ==
    /\ result.reason # Nothing
    /\ result.reason[1] # <<>>
    /\ Head(result.reason[1]) = "Failed to parse response: "

\* C21, as the specification states it: with a context and a non-empty
\* actual_output FaithfulnessScorer.score never raises, whatever text the
\* judge replies with; a text that is no JSON object as it stands (a fenced
\* object and prose quoting "score": <number> included) gives value 0.0
\* with the failure as reason, never a score found by pattern search; the
\* score of an object is clamped to [0.0, 1.0].  A reply that is JSON but
\* no object makes parsed.get raise AttributeError, and a reason that is
\* no string makes the construction of the ScoreResult raise.
C21_AsStated ==
    FaithfulnessJudged
    => /\ outcome.status = "returned"
       /\ InUnit(Value)
       /\ ~IsJsonObject(reply[1].content)
          => /\ Value = Rat(0, 1)
             /\ ReasonExplainsFailure(outcome.result[1])

\* ============================================== properties of Dataset
\* No two items of the sequence have the same (input, expected_output).
NoDuplicatePairs(its) ==
    \A a, b \in DOMAIN its :
        (/\ its[a].input = its[b].input
         /\ its[a].expected_output = its[b].expected_output) => a = b

\* The place k of seq holds the first item of seq with its pair.
IsFirstOfPair(seq, k) ==
    \A m \in 1..(k - 1) :
        seq[m].input # seq[k].input
        \/ seq[m].expected_output # seq[k].expected_output

RECURSIVE FirstOfPairsUpTo(_, _)
\* The items of seq[1..k] that are the first with their pair, in the order
\* of seq.
FirstOfPairsUpTo(seq, k) ==
    IF k = 0 THEN <<>>
    ELSE FirstOfPairsUpTo(seq, k - 1)
         \o (IF IsFirstOfPair(seq, k) THEN <<seq[k]>> ELSE <<>>)

\* The pair of the item is the pair of an item of the sequence.
PairPresent(its, item) ==
    \E k \in DOMAIN its :
        /\ its[k].input = item.input
        /\ its[k].expected_output = item.expected_output

\* C22: whatever sequence of add calls filled a dataset, by the caller,
\* from_csv or from_json, or by filter or sample filling their result, no
\* two of its items have the same (input, expected_output) pair and its
\* items are, in the order of the calls, the items that were the first
\* with their pair; a call of add with an item whose pair is present
\* leaves the dataset as it is.
C22_NoDuplicatesInOrder ==
    /\ [](/\ NoDuplicatePairs(ds_items)
          /\ ds_items = FirstOfPairsUpTo(added, Len(added))
          /\ NoDuplicatePairs(result_items)
          /\ result_items = FirstOfPairsUpTo(result_added, Len(result_added)))
    /\ [][(/\ Len(added') = Len(added) + 1
           /\ PairPresent(ds_items, added'[Len(added')]))
          => ds_items' = ds_items]_vars

\* Three calls of add, the last two with the pair of the first and other
\* tags, left one item; a sample of it was drawn.
C22_Witness ==
    /\ Len(added) = 3
    /\ Len(ds_items) = 1
    /\ added[2] # added[1]
    /\ added[3] # added[2]
    /\ made = "sample"
    /\ result_items = ds_items

\* ========================================== properties of CostTracker
\* The label a call is grouped under.
GroupOf(c) == IF c.label \in {None, ""} THEN "default" ELSE c.label

\* Whether the call counts for the group; every call counts for "all".
CountsFor(c, group) == group = "all" \/ GroupOf(c) = group

RECURSIVE TokensOfGroup(_, _)
\* The tokens of the first k calls that count for the group.
TokensOfGroup(group, k) ==
    IF k = 0 THEN 0
    ELSE TokensOfGroup(group, k - 1)
         + (IF CountsFor(tracked[k], group)
            THEN tracked[k].prompt_tokens + tracked[k].completion_tokens
            ELSE 0)

RECURSIVE CostOfGroup(_, _)
\* The float sum, in call order, of calculate_cost over the first k calls
\* that count for the group.
CostOfGroup(group, k) ==
    IF k = 0 THEN 0
    ELSE IF CountsFor(tracked[k], group)
    THEN FloatAdd(CostOfGroup(group, k - 1),
                  FloatCost(tracked[k].model, tracked[k].prompt_tokens,
                            tracked[k].completion_tokens))
    ELSE CostOfGroup(group, k - 1)

\* The groups of the calls, in the order of their first call.
RECURSIVE GroupsUpTo(_)
GroupsUpTo(k) ==
    IF k = 0 THEN <<>>
    ELSE LET before == GroupsUpTo(k - 1)
         IN IF \E m \in DOMAIN before : before[m] = GroupOf(tracked[k])
            THEN before
            ELSE Append(before, GroupOf(tracked[k]))

RECURSIVE SumOverLabels(_, _, _)
\* The sum of a field over the labels of by_label taken in the order of
\* labels, as sum(v[field] for v in by_label.values()) adds it.
SumOverLabels(by_label, labels, field) ==
    IF labels = <<>> THEN 0
    ELSE LET rest == SumOverLabels(by_label,
                                   SubSeq(labels, 1, Len(labels) - 1), field)
             x == by_label[labels[Len(labels)]][field]
         IN IF field = "cost_usd" THEN FloatAdd(rest, x) ELSE rest + x

\* breakdown has one entry per call, in call order, and the totals are the
\* sums over all calls.
TotalsAreRight ==
    /\ Len(breakdown(cost_entries)) = Len(tracked)
    /\ \A k \in DOMAIN tracked :
          LET b == breakdown(cost_entries)[k]
          IN /\ b.model = tracked[k].model
             /\ b.prompt_tokens = tracked[k].prompt_tokens
             /\ b.completion_tokens = tracked[k].completion_tokens
             /\ b.label = tracked[k].label
             /\ b.cost_usd = IF tracked[k].model = "my-model" THEN 0
                             ELSE FloatCost(tracked[k].model,
                                            tracked[k].prompt_tokens,
                                            tracked[k].completion_tokens)
    /\ total_tokens_of(cost_entries) = TokensOfGroup("all", Len(tracked))
    /\ total_cost_of(cost_entries) = CostOfGroup("all", Len(tracked))

\* breakdown_by_label has the groups of the calls as its labels, and the
\* token totals of the labels add up to total_tokens.
LabelTokensAddUp ==
    LET by_label == breakdown_by_label(cost_entries)
        labels == GroupsUpTo(Len(tracked))
    IN /\ DOMAIN by_label = {labels[k] : k \in DOMAIN labels}
       /\ \A label \in DOMAIN by_label :
             by_label[label].total_tokens
                = by_label[label].prompt_tokens
                  + by_label[label].completion_tokens
       /\ SumOverLabels(by_label, labels, "total_tokens")
             = total_tokens_of(cost_entries)

\* The cost totals of the labels add up to total_cost.
LabelCostsAddUp ==
    SumOverLabels(breakdown_by_label(cost_entries),
                  GroupsUpTo(Len(tracked)), "cost_usd")
       = total_cost_of(cost_entries)

EndedIn(t) == SelectSeq(invoked, LAMBDA c : c.thread = t)

\* The span records the call: its name, the value it returned and no
\* error, or an error if it raised.
SpanRecords(span, c) ==
    /\ span.call = c.call
    /\ span.name = c.name
    /\ c.did = "returned" => span.output = c.value /\ span.error = Nothing
    /\ c.did = "raised" => span.error # Nothing

\* C24: every call of a traced function that ended, whether it returned or
\* raised, appended exactly one span to the list of its own thread, with
\* the returned value and no error or with the error set, an inner call's
\* span before the span of the call around it, and no span of one thread is
\* in the list another thread reads.
C24_AsStated ==
    \A t \in Threads :
        /\ Len(get_current_traces(t)) = Len(EndedIn(t))
        /\ \A k \in 1..Len(EndedIn(t)) :
               /\ get_current_traces(t)[k].thread = t
               /\ SpanRecords(get_current_traces(t)[k], EndedIn(t)[k])


\* ------------------------------------------------------------------- C25
\* The number of calls of the task (scorer 0) or of the scorer at index s
\* on item k.
CallsOn(k, s) ==
    Cardinality({c \in DOMAIN calls :
                    calls[c].item = k /\ calls[c].scorer = s})

\* Whether the task was called on item k and raised.
TaskRaisedIn(k) ==
    \E c \in DOMAIN calls :
        calls[c].fn = "task" /\ calls[c].item = k /\ ~calls[c].ok

\* On item k the task, if one is supplied, was invoked exactly once, and
\* every scorer exactly once if the task did not raise and never otherwise.
InvokedOnce(k) ==
    /\ CallsOn(k, 0) = IF hasTask THEN 1 ELSE 0
    /\ \A s \in DOMAIN TheScorers :
          CallsOn(k, s) = IF TaskRaisedIn(k) THEN 0 ELSE 1

\* Nothing is invoked twice on an item.
NeverTwice ==
    \A k \in 1..MaxItems, s \in 0..MaxScorers : CallsOn(k, s) <= 1

\* The run is in a call that never returns.
Blocked == pc = "blocked"

\* C25 as stated: no retry: in a run that ended the task was invoked
\* exactly once on every test case and every scorer exactly once on every
\* test case whose task did not raise and never otherwise; if every call
\* returns or raises Eval ends, having gone through all N test cases; a call
\* that never returns blocks the run forever.
C25_AsStated ==
    /\ [](Ended => /\ Len(results) = Len(test_cases)
                   /\ \A k \in DOMAIN test_cases : InvokedOnce(k))
    /\ ([]~Blocked) => <>Ended
    /\ [](Blocked => [](Blocked /\ ~Ended))

\* C25, amended: nothing is ever invoked twice on a test case; on every
\* test case whose EvalResult was appended (all N of them once Eval
\* returned) the task was invoked exactly once and every scorer exactly
\* once if the task did not raise and never otherwise; if every call returns
\* or raises Eval ends, returning or raising; a call that never returns
\* blocks the run forever.
C25_NoRetry ==
    /\ [](/\ NeverTwice
          /\ \A k \in DOMAIN results : InvokedOnce(k)
          /\ pc = "returned" => Len(results) = Len(test_cases))
    /\ ([]~Blocked) => <>Ended
    /\ [](Blocked => [](Blocked /\ ~Ended))

\* Eval returned after a run on two test cases with two scorers in which the
\* task raised on the first test case and returned on the second.
C25_Witness ==
    /\ pc = "returned"
    /\ hasTask
    /\ Len(results) = 2
    /\ Len(TheScorers) = 2
    /\ results[1].error # None
    /\ results[2].error = None
    /\ Len(calls) = 4


\* ------------------------------------------------------------------- C26
\* The judge was asked and answered with this text.
JudgeAsked == self # <<>> /\ Ran("LLMJudge") /\ reply # Nothing
JudgeContent == reply[1].content

\* What the text without its fence holds, read as JSON.
Stripped(content) == json_loads(Cleaned(content))

\* The result of json.loads is a JSON object.
IsObject(r) == r.ok /\ r.val.t = "dict"

\* The object's score converts to a float, or the object has none.
ScoreConverts(obj) == obj.score = Nothing \/ FloatOf(obj.score[1]).ok

\* The score and the reason of a JSON object, 0.0 and "" where the key is
\* missing.
ScoreIn(obj) ==
    IF obj.score = Nothing THEN Rat(0, 1) ELSE FloatOf(obj.score[1]).x
ReasonIn(obj) ==
    IF obj.reason = Nothing THEN StrReason(<<"">>) ELSE ReasonOf(obj.reason[1])

\* parsed, what _parse_response returned, is the score and the reason of
\* the object.
ObjectUsed(parsed, obj) ==
    /\ parsed.how = "json"
    /\ parsed.score = ScoreIn(obj)
    /\ parsed.reason = ReasonIn(obj)

\* parsed holds the first "score": <number> of the raw text.
PatternUsed(parsed, content) ==
    /\ parsed.how = "regex"
    /\ parsed.score = NumValue(SearchScore(content, 1))

\* parsed is 0.0 and the failure reason, and the raw text holds no
\* "score": <number> that is a float.
FailureReturned(parsed, content) ==
    /\ parsed.how = "failed"
    /\ parsed.score = Rat(0, 1)
    /\ parsed.reason = StrReason(<<"Failed to parse judge response: ">>
                                 \o Prefix(content, JudgePrefixLen))
    /\ SearchScore(content, 1) \in {""} \cup NotAFloat

\* The text t inside a markdown fence: with a tag, on lines of its own, or
\* with nothing but the fences.
Fenced(t) ==
    {<<Fence, Tag, NL>> \o t \o <<NL, Fence>>,
     <<NL, Fence, NL>> \o t \o <<NL, Fence, NL>>,
     <<Fence>> \o t \o <<Fence>>}

\* The texts that are JSON objects, and those whose score converts.
JsonObjects == {t \in ObjectTexts : IsObject(json_loads(t))}
ConvertingObjects == {t \in JsonObjects : ScoreConverts(json_loads(t).val)}

\* parsed, the result for a reply that is the text t in a fence, holds the
\* score and the reason that t gives without the fence.
SameAsWithoutFence(parsed, t) ==
    JudgeContent \in Fenced(t) =>
        /\ parsed.score = LLMJudge_parse_response(t).score
        /\ parsed.reason = LLMJudge_parse_response(t).reason

\* C26 as stated: the fence is stripped first; a stripped text that parses
\* as a JSON object gives its score (0.0 without the key) and its reason,
\* without the pattern search; the pattern is used only if the stripped text
\* is no JSON object, the failure result returned only if the pattern fails
\* too; a fenced JSON object gives the score and reason of the object
\* without the fence.
C26_AsStated ==
    JudgeAsked =>
        LET parsed == LLMJudge_parse_response(JudgeContent)
            stripped == Stripped(JudgeContent)
        IN /\ IsObject(stripped) => ObjectUsed(parsed, stripped.val)
           /\ parsed.how = "regex" =>
                 ~IsObject(stripped) /\ PatternUsed(parsed, JudgeContent)
           /\ parsed.how = "failed" =>
                 ~IsObject(stripped) /\ FailureReturned(parsed, JudgeContent)
           /\ \A t \in JsonObjects : SameAsWithoutFence(parsed, t)

\* What the except clause of llm_judge.py:168 catches: the stripped text is
\* no JSON, or an object whose score does not convert to a float.
StrictFails(r) == ~r.ok \/ (IsObject(r) /\ ~ScoreConverts(r.val))

\* C26, amended: the fence is stripped first; a stripped text that parses
\* as a JSON object whose score converts to a float (or is missing, 0.0)
\* gives that score and its reason, without the pattern search; the pattern
\* is used only if strict parsing fails (no JSON, or a score that does not
\* convert), the failure result returned only if the pattern fails too; a
\* fenced JSON object whose score converts gives the score and reason of the
\* object without the fence; the value of a returned ScoreResult is the
\* clamped score.
C26_FallbackOrder ==
    JudgeAsked =>
        LET parsed == LLMJudge_parse_response(JudgeContent)
            stripped == Stripped(JudgeContent)
        IN /\ (IsObject(stripped) /\ ScoreConverts(stripped.val))
                 => ObjectUsed(parsed, stripped.val)
           /\ parsed.how = "regex" =>
                 StrictFails(stripped) /\ PatternUsed(parsed, JudgeContent)
           /\ parsed.how = "failed" =>
                 StrictFails(stripped) /\ FailureReturned(parsed, JudgeContent)
           /\ \A t \in ConvertingObjects : SameAsWithoutFence(parsed, t)
           /\ outcome.status = "returned" => Value = Clamp(parsed.score)

\* The judge answered with a fenced object that holds a score and a reason,
\* and the result holds them.
C26_Witness ==
    /\ JudgeAsked
    /\ JudgeContent = <<Fence, Tag, NL, "{", KScore, ":", "0.5", ",",
                        KReason, ":", "\"ok\"", "}", NL, Fence>>
    /\ outcome.status = "returned"
    /\ Value = Rat(1, 2)
    /\ outcome.result[1].reason = Some(<<"ok">>)


\* ------------------------------------------------------------------- C27
\* The length of the longest prefix of e that is a subsequence of a.
LongestPrefix(e, a) ==
    CHOOSE k \in 0..Len(e) :
        /\ IsSubsequence(SubSeq(e, 1, k), a)
        /\ \A l \in (k + 1)..Len(e) : ~IsSubsequence(SubSeq(e, 1, l), a)

\* The value the scorer gives the same test case in unordered mode.
UnorderedValue ==
    ToolCorrectness_score([self EXCEPT !.check_order = FALSE],
                          test_case).result[1].value

\* C27: in ordered mode the matched count is the length of the longest
\* prefix of expected_tools that is a subsequence of tools_called (the value
\* is that count over len(expected_tools)): after an expected tool that is
\* not found no later expected tool is matched, even one that was called;
\* so the ordered value never exceeds the unordered value of the test case.
C27_OrderedCountsLongestPrefix ==
    ToolsScored(TRUE) =>
        /\ outcome.status = "returned"
        /\ ExpectedTools # <<>> =>
              Value = Rat(LongestPrefix(ExpectedTools, ToolsCalled),
                          Len(ExpectedTools))
        /\ Geq(UnorderedValue, Value)

\* The ordered scorer matched the first of three expected tools, did not
\* find the second, and left the third unmatched although it was called.
C27_Witness ==
    /\ ToolsScored(TRUE)
    /\ Len(ExpectedTools) = 3
    /\ NoRepeats(ExpectedTools)
    /\ ExpectedTools[2] \notin Range(ToolsCalled)
    /\ ExpectedTools[3] \in Range(ToolsCalled)
    /\ Value = Rat(1, 3)
    /\ UnorderedValue = Rat(2, 3)


\* ------------------------------------------------------------------- C28
\* The actual_output the caller gave item k: items are made by Item.
GivenOutput(k) == Item(data[k].kind, data[k].input).actual_output

\* The task was called on item k and returned.
TaskReturnedOn(k) ==
    \E c \in DOMAIN calls :
        calls[c].fn = "task" /\ calls[c].item = k /\ calls[c].ok

\* What an EvalResult reports for an actual_output.
Reported(o) == IF o = None THEN "" ELSE o

\* The items of data are the caller's but for the actual_output of a
\* TestCase on which the supplied task returned; the result of an item on
\* which the task raised reports the actual_output the caller gave.
FrameHolds ==
    /\ \A k \in DOMAIN data :
          /\ data[k].actual_output # GivenOutput(k) =>
                hasTask /\ data[k].kind = "TestCase" /\ TaskReturnedOn(k)
          /\ data[k].kind # "TestCase" => data[k] = Item(data[k].kind, k)
    /\ \A k \in DOMAIN results :
          (hasTask /\ ~TaskReturnedOn(k)) =>
              /\ results[k].error # None
              /\ results[k].actual_output = Reported(GivenOutput(k))

\* A step of Eval leaves the container and its items as they are, but for
\* the actual_output of the TestCase the task has just returned for.
FrameStep ==
    pc # "setup" =>
        /\ dataKind' = dataKind
        /\ Len(data') = Len(data)
        /\ \A k \in DOMAIN data :
              /\ data'[k].kind = data[k].kind
              /\ data'[k].input = data[k].input
              /\ data'[k] # data[k] =>
                    /\ k = i
                    /\ pc = "task"
                    /\ hasTask
                    /\ data[k].kind = "TestCase"
                    /\ Len(calls') = Len(calls) + 1
                    /\ calls'[Len(calls')].ok

\* C28: Eval changes no field of a TestCase of the caller but
\* actual_output, and that only when a task is supplied and returns for the
\* item; when the task raises the item keeps the actual_output it had, which
\* the EvalResult reports ("" for None); mappings, the data list and a
\* Dataset are not modified; without a task nothing is.
C28_Frame == []FrameHolds /\ [][FrameStep]_vars

\* Eval returned: the task raised on the first TestCase, whose result
\* reports the output the caller gave, and returned on the second, whose
\* actual_output is what the task returned.
C28_Witness ==
    /\ pc = "returned"
    /\ hasTask
    /\ Len(data) = 2
    /\ data[1].kind = "TestCase"
    /\ data[2].kind = "TestCase"
    /\ results[1].error # None
    /\ results[1].actual_output = "given"
    /\ data[1].actual_output = "given"
    /\ data[2].actual_output = "out"


\* ------------------------------------------------------------------- C29
\* The place of the last supplied scorer that reports name.
LastOf(name) ==
    CHOOSE k \in DOMAIN TheScorers :
        /\ TheScorers[k].name = name
        /\ \A m \in DOMAIN TheScorers : TheScorers[m].name = name => m <= k

\* Two of the supplied scorers report the same name.
NameSharedByTwo ==
    \E a, b \in DOMAIN TheScorers :
        a # b /\ TheScorers[a].name = TheScorers[b].name

\* The cost_usd the call of the scorer at place s on item k returned.
CostReturned(k, s) ==
    LET c == CHOOSE c \in DOMAIN calls :
                calls[c].item = k /\ calls[c].scorer = s
    IN calls[c].cost

\* The values the error-free results hold under name, in order.
ValuesUnder(name) == SelectValues(results, name)

\* C29: of two supplied scorers that report one name, every error-free
\* EvalResult holds a single entry under the name, the ScoreResult of the
\* later scorer; the summary entry of the name is computed from these values
\* with the threshold of the later scorer; the cost_usd of the results of
\* both scorers is in the total cost; an error-free item holds as many
\* entries as the scorers have distinct names.
C29_LaterScorerWins ==
    pc = "returned" =>
        /\ \A k \in DOMAIN results :
              results[k].error = None =>
                  /\ DOMAIN results[k].scores = ScorerNames
                  /\ \A name \in ScorerNames :
                        /\ results[k].scores[name].threshold
                              = TheScorers[LastOf(name)].threshold
                        /\ results[k].scores[name].cost_usd
                              = CostReturned(k, LastOf(name))
        /\ \A name \in DOMAIN summary :
              /\ summary[name].mean
                    = Frac(SumSeq(ValuesUnder(name)), Len(ValuesUnder(name)))
              /\ summary[name].pass_rate
                    = Frac(Cardinality(
                               {k \in DOMAIN ValuesUnder(name) :
                                   ValuesUnder(name)[k]
                                      >= ThresholdOf(TheScorers[LastOf(name)])}),
                           Len(ValuesUnder(name)))
        /\ total_cost = SumOfCosts(SelectSeq(calls, LAMBDA c : c.fn = "scorer"))

\* Eval returned from a run with two scorers of one name on one item: the
\* earlier returned a value that passes its threshold, at a cost, the later
\* one a value that fails; the item holds the later result, the summary
\* counts no pass, and the total cost is that of the earlier call.
C29_Witness ==
    /\ pc = "returned"
    /\ NameSharedByTwo
    /\ Len(results) = 1
    /\ results[1].error = None
    /\ Cardinality(DOMAIN results[1].scores) = 1
    /\ results[1].scores["A"].cost_usd = Nothing
    /\ results[1].scores["A"].value = 0
    /\ summary["A"].pass_rate = Frac(0, 1)
    /\ total_cost = 1


\* ------------------------------------------------------------------- C30
\* A scorer that asks a client has run on a test case whose actual_output
\* is None or empty.
ClientScorerRanOnEmpty ==
    /\ self # <<>>
    /\ self.kind \in ScorerKinds
    /\ outcome.status # "pending"
    /\ test_case.actual_output \in {None, ""}

\* The field the scorer requires is missing: context for Faithfulness,
\* expected_output for Similarity.
RequiredFieldMissing ==
    \/ self.kind = "Faithfulness" /\ test_case.context = Nothing
    \/ self.kind = "Similarity" /\ test_case.expected_output = None

====
